---------------------------- MODULE Spec2Model ----------------------------
(*
  Model of the ymrentals-api wallet ledger (WalletService) and rental
  lifecycle (RentalService).  The relational store is the state; every
  service method is one action in the sequential specifications, and is
  split at its awaited database calls in the interleaved specifications.

  Amounts are integers (the columns are DOUBLE PRECISION; rounding of
  binary fractions is outside this model).  Instants are integers counted
  in hours.
*)
EXTENDS Integers, Sequences, FiniteSets, TLC

VARIABLES
  wallets,       \* table "wallets", keyed by userId (wallets_userId_key is UNIQUE)
  transactions,  \* table "wallet_transactions", in insertion order
  rentals,       \* table "Rental", index = id
  equipment,     \* table "Equipment": ownerId, isAvailable
  now,           \* the clock read by new Date()
  procs,         \* in-flight handlers of the interleaved specifications
  last,          \* the most recent completed call: operation, arguments, outcome
  sponsorships   \* table "AdSponsorship", index = id

vars == <<wallets, transactions, rentals, equipment, now, procs, last, sponsorships>>

-----------------------------------------------------------------------------
(* Bounds of the model *)

MaxTx == 3        \* rows in wallet_transactions
MaxRentals == 1   \* rows in Rental, in the specification of the whole service
MaxRequests == 2  \* rows in Rental, in the specification of competing requests
MaxTime == 25     \* last instant the clock reaches
MaxSponsorships == 2  \* rows in AdSponsorship

(* Rows of table User; "ghost" is an id with no row *)
Users == {"u1", "u2", "u3", "u4"}
UserType == [u \in Users |-> IF u \in {"u1", "u4"} THEN "LANDLORD" ELSE "TENANT"]
UserIds == Users \cup {"ghost"}

(* Rows of table Equipment, with their owners *)
EquipmentIds == {"e1"}
EquipmentOwner == [e \in EquipmentIds |-> "u1"]

Procs == {"p1", "p2"}

HoursPerDay == 24

-----------------------------------------------------------------------------
(* Wallet ledger *)

WalletTransactionType ==
  {"DEPOSIT", "WITHDRAWAL", "PAYMENT", "REFUND", "PRIORITY_FEE",
   "PROMOTION_FEE", "COMMISSION", "BONUS"}

WalletTransactionStatus ==
  {"PENDING", "PROCESSING", "COMPLETED", "FAILED", "CANCELLED", "REFUNDED"}

NoWallet == [exists |-> FALSE, balance |-> 0]

(* The pair of tables the wallet service writes *)
Ledger(ws, txs) == [wallets |-> ws, transactions |-> txs]

Fail(err, L) == [err |-> err, wallets |-> L.wallets, transactions |-> L.transactions]

(* Mutant: the guard tests the balance alone and forgets the amount *)
InsufficientForDebit_BalanceOnly(balance, amount) == amount < 0 /\ balance < 0

(* if (amount < 0 && wallet.balance + amount < 0) *)
InsufficientForDebit(balance, amount) == amount < 0 /\ balance + amount < 0

(* The row createTransaction inserts: the status of the DTO is not read *)
TransactionRow(dto) ==
  [walletId |-> dto.walletId, type |-> dto.type, amount |-> dto.amount,
   status |-> "COMPLETED", ref |-> dto.ref]

(* balance: { increment: amount } *)
IncrementBalance(ws, walletId, amount) ==
  [ws EXCEPT ![walletId].balance = @ + amount]

TxDto(walletId, type, amount, status, ref) ==
  [walletId |-> walletId, type |-> type, amount |-> amount,
   status |-> status, ref |-> ref]

createTransaction(L, dto) ==
  IF ~L.wallets[dto.walletId].exists
    THEN Fail("NotFound", L)
  ELSE IF InsufficientForDebit(L.wallets[dto.walletId].balance, dto.amount)
    THEN Fail("InsufficientBalance", L)
  ELSE [err |-> "OK",
        wallets |-> IncrementBalance(L.wallets, dto.walletId, dto.amount),
        transactions |-> Append(L.transactions, TransactionRow(dto))]

(* balance: initialBalance in wallet.create *)
NewWallet(initialBalance) == [exists |-> TRUE, balance |-> initialBalance]

createWallet(L, userId, initialBalance) ==
  IF userId \notin Users
    THEN Fail("NotFound", L)
  ELSE IF L.wallets[userId].exists
    THEN Fail("BadRequest", L)
  ELSE LET created == Ledger([L.wallets EXCEPT ![userId] = NewWallet(initialBalance)],
                             L.transactions)
       IN IF initialBalance > 0
            THEN createTransaction(created,
                   TxDto(userId, "DEPOSIT", initialBalance, "COMPLETED", 0))
            ELSE [err |-> "OK", wallets |-> created.wallets,
                  transactions |-> created.transactions]

getWalletByUserId(L, userId) ==
  IF L.wallets[userId].exists
    THEN [err |-> "OK", wallets |-> L.wallets, transactions |-> L.transactions]
    ELSE createWallet(L, userId, 0)

(* gatewayOk: proxyPayResponse.success *)
depositViaProxyPay(L, userId, amount, gatewayOk) ==
  IF amount <= 0 THEN Fail("ValidationError", L)
  ELSE LET w == getWalletByUserId(L, userId)
       IN IF w.err # "OK" THEN w
          ELSE IF ~gatewayOk THEN [w EXCEPT !.err = "BadRequest"]
          ELSE createTransaction(Ledger(w.wallets, w.transactions),
                 TxDto(userId, "DEPOSIT", amount, "PENDING", 0))

withdrawViaProxyPay(L, userId, amount) ==
  IF amount <= 0 THEN Fail("ValidationError", L)
  ELSE LET w == getWalletByUserId(L, userId)
       IN IF w.err # "OK" THEN w
          ELSE IF w.wallets[userId].balance < amount
            THEN [w EXCEPT !.err = "InsufficientBalance"]
          ELSE createTransaction(Ledger(w.wallets, w.transactions),
                 TxDto(userId, "WITHDRAWAL", -amount, "COMPLETED", 0))

-----------------------------------------------------------------------------
(* Sequential specification of the wallet service: one action per method *)

(* Inputs of the wallet calls *)
WalletUserInputs == {"u1", "u2", "ghost"}
InitialBalances == {0, 100}
TxAmounts == {-100, -60, 60, 100}
TxTypeInputs == {"BONUS", "REFUND"}
GatewayAmounts == {0, 60}

NoCall == [op |-> "none", result |-> "OK"]

Idle == [p \in Procs |-> [pc |-> "idle"]]

NoRentals == <<>>

InitEquipment ==
  [e \in EquipmentIds |->
     [ownerId |-> EquipmentOwner[e], isAvailable |-> TRUE,
      price |-> 20, pricePeriod |-> "DAILY"]]

InitWallet ==
  /\ wallets = [u \in UserIds |-> NoWallet]
  /\ transactions = <<>>
  /\ rentals = NoRentals
  /\ equipment = InitEquipment
  /\ now = 0
  /\ procs = Idle
  /\ last = NoCall
  /\ sponsorships = << >>

(* Commit the outcome r of a wallet call and record the call *)
Returns(r, call) ==
  /\ wallets' = r.wallets
  /\ transactions' = r.transactions
  /\ last' = [call EXCEPT !.result = r.err]

CreateWallet(userId, initialBalance) ==
  /\ Len(transactions) < MaxTx
  /\ Returns(createWallet(Ledger(wallets, transactions), userId, initialBalance),
             [op |-> "createWallet", user |-> userId, amount |-> initialBalance,
              result |-> "OK"])
  /\ UNCHANGED <<rentals, equipment, now, procs, sponsorships>>

GetWalletByUserId(userId) ==
  /\ Returns(getWalletByUserId(Ledger(wallets, transactions), userId),
             [op |-> "getWalletByUserId", user |-> userId, amount |-> 0,
              result |-> "OK"])
  /\ UNCHANGED <<rentals, equipment, now, procs, sponsorships>>

CreateTransaction(walletId, type, amount) ==
  /\ Len(transactions) < MaxTx
  /\ Returns(createTransaction(Ledger(wallets, transactions),
                               TxDto(walletId, type, amount, "COMPLETED", 0)),
             [op |-> "createTransaction", user |-> walletId, amount |-> amount,
              result |-> "OK"])
  /\ UNCHANGED <<rentals, equipment, now, procs, sponsorships>>

DepositViaProxyPay(userId, amount, gatewayOk) ==
  /\ Len(transactions) < MaxTx
  /\ Returns(depositViaProxyPay(Ledger(wallets, transactions), userId, amount, gatewayOk),
             [op |-> "depositViaProxyPay", user |-> userId, amount |-> amount,
              result |-> "OK"])
  /\ UNCHANGED <<rentals, equipment, now, procs, sponsorships>>

WithdrawViaProxyPay(userId, amount) ==
  /\ Len(transactions) < MaxTx
  /\ Returns(withdrawViaProxyPay(Ledger(wallets, transactions), userId, amount),
             [op |-> "withdrawViaProxyPay", user |-> userId, amount |-> amount,
              result |-> "OK"])
  /\ UNCHANGED <<rentals, equipment, now, procs, sponsorships>>

NextWallet ==
  \/ \E u \in WalletUserInputs, b \in InitialBalances : CreateWallet(u, b)
  \/ \E u \in WalletUserInputs : GetWalletByUserId(u)
  \/ \E u \in WalletUserInputs, t \in TxTypeInputs, a \in TxAmounts :
       CreateTransaction(u, t, a)
  \/ \E u \in WalletUserInputs, a \in GatewayAmounts, ok \in BOOLEAN :
       DepositViaProxyPay(u, a, ok)
  \/ \E u \in WalletUserInputs, a \in GatewayAmounts : WithdrawViaProxyPay(u, a)

SpecWallet == InitWallet /\ [][NextWallet]_vars

-----------------------------------------------------------------------------
(* Interleaved createTransaction: the handler gives up control at each awaited
   query, so concurrent requests interleave between its three queries.  No
   query runs inside a database transaction or takes a row lock. *)

RaceWallet == "u2"
RaceBalances == {0, 60, 100}
RaceAmounts == {-60, -40, 60}

(* The wallet of RaceWallet after getWalletByUserId and one deposit of b *)
InitDebitRace ==
  \E b \in RaceBalances :
    /\ wallets = [u \in UserIds |->
                    IF u = RaceWallet THEN [exists |-> TRUE, balance |-> b]
                    ELSE NoWallet]
    /\ transactions =
         IF b > 0
           THEN << TransactionRow(TxDto(RaceWallet, "DEPOSIT", b, "COMPLETED", 0)) >>
           ELSE << >>
    /\ rentals = NoRentals
    /\ equipment = InitEquipment
    /\ now = 0
    /\ procs = Idle
    /\ last = NoCall
    /\ sponsorships = << >>

Done(p, dto, result) ==
  /\ procs' = [procs EXCEPT ![p] = [pc |-> "done", dto |-> dto, result |-> result]]
  /\ last' = [op |-> "createTransaction", user |-> dto.walletId,
              amount |-> dto.amount, result |-> result]

(* wallet.findUnique, then the two checks on the row that was read *)
createTransaction_findUnique(p, dto) ==
  /\ procs[p].pc = "idle"
  /\ IF ~wallets[dto.walletId].exists
       THEN Done(p, dto, "NotFound")
     ELSE IF InsufficientForDebit(wallets[dto.walletId].balance, dto.amount)
       THEN Done(p, dto, "InsufficientBalance")
     ELSE /\ procs' = [procs EXCEPT ![p] = [pc |-> "create", dto |-> dto]]
          /\ UNCHANGED last
  /\ UNCHANGED <<wallets, transactions, rentals, equipment, now, sponsorships>>

(* walletTransaction.create *)
createTransaction_create(p) ==
  /\ procs[p].pc = "create"
  /\ transactions' = Append(transactions, TransactionRow(procs[p].dto))
  /\ procs' = [procs EXCEPT ![p].pc = "update"]
  /\ UNCHANGED <<wallets, rentals, equipment, now, last, sponsorships>>

(* wallet.update with balance: { increment: amount }, then return *)
createTransaction_update(p) ==
  /\ procs[p].pc = "update"
  /\ wallets' = IncrementBalance(wallets, procs[p].dto.walletId, procs[p].dto.amount)
  /\ Done(p, procs[p].dto, "OK")
  /\ UNCHANGED <<transactions, rentals, equipment, now, sponsorships>>

(* Each request makes one call; nothing else touches the wallet *)
NextDebitRace ==
  \/ \E p \in Procs, a \in RaceAmounts :
       createTransaction_findUnique(p, TxDto(RaceWallet, "PAYMENT", a, "COMPLETED", 0))
  \/ \E p \in Procs : createTransaction_create(p)
  \/ \E p \in Procs : createTransaction_update(p)

SpecDebitRace == InitDebitRace /\ [][NextDebitRace]_vars

-----------------------------------------------------------------------------
(* Rental lifecycle *)

(* enum RentalStatus of the Prisma schema *)
RentalStatus ==
  {"PENDING", "APPROVED", "PAID", "ACTIVE", "COMPLETED", "CANCELLED", "REJECTED"}

(* status: { in: ['APPROVED', 'PAID', 'ACTIVE'] } *)
HeldStatus == {"APPROVED", "PAID", "ACTIVE"}

(* RENTAL_PAYMENT_TIMEOUT_HOURS || '24' *)
TimeoutHours == 24

(* A nullable column or an optional field: <<>> is null / undefined *)
Null == << >>
Some(v) == << v >>
Val(x) == x[1]
(* JavaScript truthiness of an optional number *)
Truthy(x) == x # Null /\ Val(x) # 0

CeilDiv(a, b) == IF a % b = 0 THEN a \div b ELSE (a \div b) + 1

(* today.setHours(0, 0, 0, 0) *)
StartOfDay(t) == t - (t % HoursPerDay)

(* The four tables the services write, and the outcome of the call *)
Db(ws, txs, rs, eq) ==
  [err |-> "OK", wallets |-> ws, transactions |-> txs, rentals |-> rs,
   equipment |-> eq]

Throw(err, D) == [D EXCEPT !.err = err]

LedgerOf(D) == Ledger(D.wallets, D.transactions)

WithLedger(D, r) ==
  [D EXCEPT !.wallets = r.wallets, !.transactions = r.transactions]

RentalIds(D) == DOMAIN D.rentals

(* Math.ceil((endDate - startDate) / (1000 * 60 * 60 * 24)) *)
RentalDays(dto) == CeilDiv(dto.endDate - dto.startDate, HoursPerDay)

(* createRentalDto.dailyRate || equipment.price || 0 *)
DailyRate(dto, eq) ==
  IF Truthy(dto.dailyRate) THEN Val(dto.dailyRate) ELSE eq.price

(* createRentalDto.pricePeriod || equipment.pricePeriod *)
PricePeriod(dto, eq) ==
  IF dto.pricePeriod # "" THEN dto.pricePeriod ELSE eq.pricePeriod

TotalAmount(dto, eq) ==
  LET days == RentalDays(dto)
      rate == DailyRate(dto, eq)
      period == PricePeriod(dto, eq)
  IN IF Truthy(dto.totalAmount) THEN Val(dto.totalAmount)
     ELSE IF period = "HOURLY" THEN rate * days * 8
     ELSE IF period = "WEEKLY" THEN rate * CeilDiv(days, 7)
     ELSE IF period = "MONTHLY" THEN rate * CeilDiv(days, 30)
     ELSE rate * days

(* The row rental.create inserts *)
RentalRow(dto, eq, t) ==
  [equipmentId |-> dto.equipmentId,
   renterId |-> dto.renterId,
   ownerId |-> eq.ownerId,
   endDate |-> dto.endDate,
   totalAmount |-> TotalAmount(dto, eq),
   paymentMethod |-> dto.paymentMethod,
   returnReminderDate |-> dto.endDate - HoursPerDay,
   returnNotificationSent |-> FALSE,
   status |-> "PENDING",
   paymentStatus |-> "PENDING",
   paymentReceiptStatus |-> IF dto.paymentMethod = "RECEIPT" THEN "PENDING" ELSE "NONE",
   paymentReceipt |-> "",
   hasPriority |-> dto.hasPriority,
   priorityAmount |-> dto.priorityAmount,
   priorityPaidAt |-> IF dto.hasPriority THEN Some(t) ELSE Null,
   approvedAt |-> Null,
   deleted |-> FALSE]

(* Mutant: the rental keeps its priority when the fee was not taken *)
clearPriority_None(D, id) == D

(* data: { hasPriority: false, priorityAmount: null, priorityPaidAt: null } *)
clearPriority(D, id) ==
  [D EXCEPT !.rentals[id].hasPriority = FALSE,
             !.rentals[id].priorityAmount = Null,
             !.rentals[id].priorityPaidAt = Null]

(* The awaited queries of the try block that can throw: wallet.findUnique of
   getWalletByUserId, and the three queries of createTransaction *)
PriorityFaults == {"none", "getWallet", "findUnique", "create", "update"}

(* The try / catch after rental.create: any throw ends in clearPriority.  The
   query `fault` throws; what was written before it stays. *)
priorityFeeWith(D, id, dto, fault) ==
  LET w == getWalletByUserId(LedgerOf(D), dto.renterId)
      amount == Val(dto.priorityAmount)
      fee == TxDto(dto.renterId, "PRIORITY_FEE", -amount, "COMPLETED", id)
  IN IF fault = "getWallet" THEN clearPriority(D, id)
     ELSE IF w.err # "OK" THEN clearPriority(WithLedger(D, w), id)
     ELSE IF w.wallets[dto.renterId].balance >= amount
       THEN LET c == createTransaction(Ledger(w.wallets, w.transactions), fee)
            IN IF fault \in {"findUnique", "create"}
                 THEN clearPriority(WithLedger(D, w), id)
               ELSE IF c.err # "OK" THEN clearPriority(WithLedger(D, c), id)
               ELSE IF fault = "update"
                 THEN clearPriority(
                        WithLedger(D, Ledger(w.wallets,
                                             Append(w.transactions, TransactionRow(fee)))),
                        id)
               ELSE WithLedger(D, c)
     ELSE clearPriority(WithLedger(D, w), id)

priorityFee(D, id, dto) == priorityFeeWith(D, id, dto, "none")

(* Mutant: the equipment is taken as soon as it is requested *)
insertRental_Reserves(D, row) ==
  [D EXCEPT !.rentals = Append(@, row),
             !.equipment[row.equipmentId].isAvailable = FALSE]

(* rental.create: one row more, and no write to Equipment *)
insertRental(D, row) == [D EXCEPT !.rentals = Append(@, row)]

(* startDate < today, today being the start of the current day *)
startsInPast(dto, t) == dto.startDate < StartOfDay(t)

(* Mutant: a rental may end at the instant it starts *)
endsBeforeStart_Strict(dto) == dto.endDate < dto.startDate

(* endDate <= startDate *)
endsBeforeStart(dto) == dto.endDate <= dto.startDate

createWith(D, dto, t, fault) ==
  IF dto.equipmentId \notin EquipmentIds THEN Throw("NotFound", D)
  ELSE LET eq == D.equipment[dto.equipmentId]
       IN IF ~eq.isAvailable THEN Throw("BadRequest", D)
          ELSE IF eq.ownerId = dto.renterId THEN Throw("BadRequest", D)
          ELSE IF dto.renterId \notin Users THEN Throw("NotFound", D)
          ELSE IF UserType[dto.renterId] = "LANDLORD" THEN Throw("BadRequest", D)
          ELSE IF startsInPast(dto, t) THEN Throw("ValidationError", D)
          ELSE IF endsBeforeStart(dto) THEN Throw("ValidationError", D)
          ELSE IF Truthy(dto.maxRentalDays) /\ RentalDays(dto) > Val(dto.maxRentalDays)
            THEN Throw("ValidationError", D)
          ELSE LET id == Len(D.rentals) + 1
                   created == insertRental(D, RentalRow(dto, eq, t))
               IN IF dto.hasPriority /\ Truthy(dto.priorityAmount)
                    THEN priorityFeeWith(created, id, dto, fault)
                    ELSE created

create(D, dto, t) == createWith(D, dto, t, "none")

(* findUnique({ where: { id, deletedAt: null } }) and the permission check;
   the result is the error, or "OK".  userId is the id of the authenticated
   caller, never empty. *)
findOne(D, id, userId) ==
  IF id \notin RentalIds(D) \/ D.rentals[id].deleted THEN "NotFound"
  ELSE IF D.rentals[id].renterId # userId /\ D.rentals[id].ownerId # userId
    THEN "Forbidden"
  ELSE "OK"

(* findFirst: a rental of the equipment, other than `except`, in a held
   status whose endDate is not before now *)
hasApprovedRentals(D, equipmentId, except, t) ==
  \E r \in RentalIds(D) \ except :
    /\ D.rentals[r].equipmentId = equipmentId
    /\ D.rentals[r].status \in HeldStatus
    /\ D.rentals[r].endDate >= t

(* Mutant: the updateMany is left out *)
rejectOtherPending_None(rs, id) == rs

(* updateMany: status PENDING -> REJECTED for the other rentals of the equipment *)
rejectOtherPending(rs, id) ==
  [r \in DOMAIN rs |->
     IF r # id /\ rs[r].equipmentId = rs[id].equipmentId /\ rs[r].status = "PENDING"
       THEN [rs[r] EXCEPT !.status = "REJECTED"]
       ELSE rs[r]]

(* Mutant: the owner check of an approval is left out *)
approveForbidden_Never(rental, status, userId) == FALSE

(* if (status === 'APPROVED' && rental.ownerId !== userId) *)
approveForbidden(rental, status, userId) ==
  status = "APPROVED" /\ rental.ownerId # userId

(* if (status === 'CANCELLED' && renterId !== userId && ownerId !== userId) *)
cancelForbidden(rental, status, userId) ==
  status = "CANCELLED" /\ rental.renterId # userId /\ rental.ownerId # userId

(* The branch of updateStatus for status APPROVED *)
onApproved(D, id, t) ==
  [D EXCEPT !.equipment[D.rentals[id].equipmentId].isAvailable = FALSE,
            !.rentals = [rejectOtherPending(@, id) EXCEPT ![id].approvedAt = Some(t)]]

(* The branch of updateStatus for status CANCELLED and REJECTED *)
onReleased(D, id, t) ==
  IF hasApprovedRentals(D, D.rentals[id].equipmentId, {}, t) THEN D
  ELSE [D EXCEPT !.equipment[D.rentals[id].equipmentId].isAvailable = TRUE]

updateStatus(D, id, status, userId, t) ==
  IF findOne(D, id, userId) # "OK" THEN Throw(findOne(D, id, userId), D)
  ELSE IF approveForbidden(D.rentals[id], status, userId) THEN Throw("Forbidden", D)
  ELSE IF cancelForbidden(D.rentals[id], status, userId) THEN Throw("Forbidden", D)
  ELSE IF status \notin RentalStatus THEN Throw("InternalError", D)
  ELSE LET updated == [D EXCEPT !.rentals[id].status = status]
       IN IF status = "APPROVED" THEN onApproved(updated, id, t)
          ELSE IF status \in {"CANCELLED", "REJECTED"} THEN onReleased(updated, id, t)
          ELSE updated

(* The update writes status 'IN_PROGRESS', which is no value of RentalStatus:
   the query is refused and nothing is written *)
processPayment(D, id, userId) ==
  IF findOne(D, id, userId) # "OK" THEN Throw(findOne(D, id, userId), D)
  ELSE IF D.rentals[id].renterId # userId THEN Throw("Forbidden", D)
  ELSE IF D.rentals[id].status # "APPROVED" THEN Throw("BadRequest", D)
  ELSE IF "IN_PROGRESS" \notin RentalStatus THEN Throw("InternalError", D)
  ELSE [D EXCEPT !.rentals[id].status = "IN_PROGRESS"]

cancelRental(D, id, userId) ==
  IF findOne(D, id, userId) # "OK" THEN Throw(findOne(D, id, userId), D)
  ELSE IF D.rentals[id].status = "COMPLETED" THEN Throw("BadRequest", D)
  ELSE [D EXCEPT !.rentals[id].status = "CANCELLED",
                 !.rentals[id].deleted = TRUE,
                 !.equipment[D.rentals[id].equipmentId].isAvailable = TRUE]

uploadPaymentReceipt(D, id, userId) ==
  IF id \notin RentalIds(D) THEN Throw("NotFound", D)
  ELSE IF D.rentals[id].renterId # userId THEN Throw("Forbidden", D)
  ELSE IF D.rentals[id].paymentMethod # "RECEIPT" THEN Throw("BadRequest", D)
  ELSE [D EXCEPT !.rentals[id].paymentReceipt = "url",
                 !.rentals[id].paymentReceiptStatus = "PENDING"]

(* Mutant: the receipt is validated whatever its status *)
validatePaymentReceipt_NoGuard(D, id, isApproved) ==
  IF id \notin RentalIds(D) THEN Throw("NotFound", D)
  ELSE IF isApproved
    THEN [D EXCEPT !.rentals[id].paymentReceiptStatus = "APPROVED",
                   !.rentals[id].paymentStatus = "PAID",
                   !.rentals[id].status = "PAID"]
    ELSE [D EXCEPT !.rentals[id].paymentReceiptStatus = "REJECTED"]

validatePaymentReceipt(D, id, isApproved) ==
  IF id \notin RentalIds(D) THEN Throw("NotFound", D)
  ELSE IF D.rentals[id].paymentReceiptStatus # "PENDING" THEN Throw("BadRequest", D)
  ELSE IF isApproved
    THEN [D EXCEPT !.rentals[id].paymentReceiptStatus = "APPROVED",
                   !.rentals[id].paymentStatus = "PAID",
                   !.rentals[id].status = "PAID"]
    ELSE [D EXCEPT !.rentals[id].paymentReceiptStatus = "REJECTED"]

(* Mutant: the update leaves paymentMethod as it was *)
markPaid_KeepsMethod(D, id) ==
  [D EXCEPT !.rentals[id].paymentStatus = "PAID", !.rentals[id].status = "PAID"]

(* data: { paymentStatus: 'PAID', paymentMethod: 'WALLET', status: 'PAID' } *)
markPaid(D, id) ==
  [D EXCEPT !.rentals[id].paymentStatus = "PAID",
            !.rentals[id].paymentMethod = "WALLET",
            !.rentals[id].status = "PAID"]

(* Mutant: the rental is marked paid before the balance is looked at *)
payWithWallet_MarksFirst(D, id, userId) ==
  IF id \notin RentalIds(D) THEN Throw("NotFound", D)
  ELSE IF D.rentals[id].renterId # userId THEN Throw("Forbidden", D)
  ELSE IF D.rentals[id].paymentStatus = "PAID" THEN Throw("BadRequest", D)
  ELSE LET w == getWalletByUserId(LedgerOf(D), userId)
           c == createTransaction(Ledger(w.wallets, w.transactions),
                  TxDto(userId, "PAYMENT", -D.rentals[id].totalAmount,
                        "COMPLETED", id))
       IN IF w.err # "OK" THEN Throw(w.err, WithLedger(D, w))
          ELSE IF c.err # "OK" THEN Throw(c.err, markPaid(WithLedger(D, c), id))
          ELSE markPaid(WithLedger(D, c), id)

payWithWallet(D, id, userId) ==
  IF id \notin RentalIds(D) THEN Throw("NotFound", D)
  ELSE IF D.rentals[id].renterId # userId THEN Throw("Forbidden", D)
  ELSE IF D.rentals[id].paymentStatus = "PAID" THEN Throw("BadRequest", D)
  ELSE LET w == getWalletByUserId(LedgerOf(D), userId)
       IN IF w.err # "OK" THEN Throw(w.err, WithLedger(D, w))
          ELSE IF w.wallets[userId].balance < D.rentals[id].totalAmount
            THEN Throw("InsufficientBalance", WithLedger(D, w))
          ELSE LET c == createTransaction(Ledger(w.wallets, w.transactions),
                          TxDto(userId, "PAYMENT", -D.rentals[id].totalAmount,
                                "COMPLETED", id))
               IN IF c.err # "OK" THEN Throw(c.err, WithLedger(D, c))
                  ELSE markPaid(WithLedger(D, c), id)

(* Mutant: the comparison with the expiration date is strict *)
expiredAt_Strict(approvedAt, t) == approvedAt < t - TimeoutHours

(* approvedAt: { lte: expirationDate } *)
expiredAt(approvedAt, t) == approvedAt <= t - TimeoutHours

(* findMany: status APPROVED, paymentStatus PENDING, approvedAt <= now - timeout *)
expiredRentals(D, t) ==
  {r \in RentalIds(D) :
     /\ D.rentals[r].status = "APPROVED"
     /\ D.rentals[r].paymentStatus = "PENDING"
     /\ D.rentals[r].approvedAt # Null
     /\ expiredAt(Val(D.rentals[r].approvedAt), t)}

(* One turn of the for loop *)
cancelExpired(D, id, t) ==
  LET cancelled == [D EXCEPT !.rentals[id].status = "CANCELLED"]
  IN IF hasApprovedRentals(cancelled, D.rentals[id].equipmentId, {id}, t)
       THEN cancelled
       ELSE [cancelled EXCEPT !.equipment[D.rentals[id].equipmentId].isAvailable = TRUE]

Min(S) == CHOOSE x \in S : \A y \in S : x <= y

(* The for loop over the rows the query returned, in the order of their ids *)
RECURSIVE cancelEach(_, _, _)
cancelEach(D, ids, t) ==
  IF ids = {} THEN D
  ELSE cancelEach(cancelExpired(D, Min(ids), t), ids \ {Min(ids)}, t)

cancelExpiredApprovedRentals(D, t) == cancelEach(D, expiredRentals(D, t), t)

(* The awaited queries of the try block: a query that throws ends the turn of
   the loop in the catch; "none" is a turn in which no query throws *)
FaultPoints == {"none", "update", "findFirst", "equipment"}

(* One turn of the for loop in which the query `fault` throws: the writes made
   before it stay, and the rental is pushed only when the turn reaches the end
   of the try block *)
tryCancel(D, id, t, fault) ==
  LET cancelled == [D EXCEPT !.rentals[id].status = "CANCELLED"]
      hasOther == hasApprovedRentals(cancelled, D.rentals[id].equipmentId, {id}, t)
  IN IF fault = "update" THEN [db |-> D, pushed |-> FALSE]
     ELSE IF fault = "findFirst" \/ (fault = "equipment" /\ ~hasOther)
       THEN [db |-> cancelled, pushed |-> FALSE]
     ELSE [db |-> cancelExpired(D, id, t), pushed |-> TRUE]

(* Mutant: the catch is outside the loop, the first throw ends the sweep *)
RECURSIVE cancelEachWith_StopsAtThrow(_, _, _, _, _)
cancelEachWith_StopsAtThrow(D, ids, t, faults, returned) ==
  IF ids = {} THEN [db |-> D, returned |-> returned]
  ELSE LET id == Min(ids)
           turn == tryCancel(D, id, t, faults[id])
       IN IF ~turn.pushed THEN [db |-> turn.db, returned |-> returned]
          ELSE cancelEachWith_StopsAtThrow(turn.db, ids \ {id}, t, faults,
                                           returned \cup {id})

(* The for loop with its try / catch, and the list it returns *)
RECURSIVE cancelEachWith(_, _, _, _, _)
cancelEachWith(D, ids, t, faults, returned) ==
  IF ids = {} THEN [db |-> D, returned |-> returned]
  ELSE LET id == Min(ids)
           turn == tryCancel(D, id, t, faults[id])
       IN cancelEachWith(turn.db, ids \ {id}, t, faults,
                         IF turn.pushed THEN returned \cup {id} ELSE returned)

(* Mutant: the query has no filter on returnNotificationSent *)
rentalsToRemind_SentToo(D, t) ==
  {r \in RentalIds(D) :
     /\ D.rentals[r].returnReminderDate <= StartOfDay(t)
     /\ D.rentals[r].status \in {"ACTIVE", "PAID"}
     /\ ~D.rentals[r].deleted}

(* findMany: returnReminderDate <= today, returnNotificationSent false,
   status ACTIVE or PAID, deletedAt null *)
rentalsToRemind(D, t) ==
  {r \in RentalIds(D) :
     /\ D.rentals[r].returnReminderDate <= StartOfDay(t)
     /\ ~D.rentals[r].returnNotificationSent
     /\ D.rentals[r].status \in {"ACTIVE", "PAID"}
     /\ ~D.rentals[r].deleted}

(* updateMany({ where: { id: { in: ids } }, data: { returnNotificationSent: true } }) *)
sendReturnReminders(D, t) ==
  [D EXCEPT !.rentals =
     [r \in DOMAIN @ |->
        IF r \in rentalsToRemind(D, t)
          THEN [@[r] EXCEPT !.returnNotificationSent = TRUE] ELSE @[r]]]

-----------------------------------------------------------------------------
(* Sequential specification of the rental service: one action per method *)

(* Inputs of the rental calls *)
Actors == {"u1", "u2", "u3"}
RenterInputs == {"u1", "u2", "u4", "ghost"}
PaymentMethodInputs == {"RECEIPT", "WALLET"}
StatusInputs == RentalStatus \cup {"IN_PROGRESS"}
TickSteps == {25}
RentalDeposits == {40}

RentalDto(e, u, sd, ed, total, method, prio, prioAmount) ==
  [equipmentId |-> e, renterId |-> u, startDate |-> sd, endDate |-> ed,
   totalAmount |-> total, dailyRate |-> Null, pricePeriod |-> "",
   maxRentalDays |-> Null, paymentMethod |-> method,
   hasPriority |-> prio, priorityAmount |-> prioAmount]

(* A request for one day from today by tenant u2, and the requests that differ
   from it in one field: the renter, the equipment, a start date in the past,
   an end date not after the start date *)
RentalDtoInputs(t, methods) ==
  LET today == StartOfDay(t)
      Dto(e, u, sd, ed, m) == RentalDto(e, u, sd, ed, Some(60), m, FALSE, Null)
  IN {Dto("e1", u, today, today + HoursPerDay, m) : u \in RenterInputs, m \in methods}
     \cup {Dto("e0", "u2", today, today + HoursPerDay, m) : m \in methods}
     \cup {Dto("e1", "u2", today - HoursPerDay, today + HoursPerDay, m) : m \in methods}
     \cup {Dto("e1", "u2", today, today, m) : m \in methods}

InitRental == InitWallet

Here == Db(wallets, transactions, rentals, equipment)

(* Commit the outcome D of a call and record the call *)
Commit(D, call) ==
  /\ wallets' = D.wallets
  /\ transactions' = D.transactions
  /\ rentals' = D.rentals
  /\ equipment' = D.equipment
  /\ last' = [call EXCEPT !.result = D.err]
  /\ UNCHANGED <<now, procs, sponsorships>>

Call(op, id, actor, arg) ==
  [op |-> op, id |-> id, actor |-> actor, arg |-> arg, result |-> "OK"]

Create(dto, maxRentals) ==
  /\ Len(rentals) < maxRentals
  /\ Len(transactions) < MaxTx
  /\ Commit(create(Here, dto, now),
            Call("create", Len(rentals) + 1, dto.renterId, dto.paymentMethod))

UpdateStatus(id, status, userId) ==
  Commit(updateStatus(Here, id, status, userId, now),
         Call("updateStatus", id, userId, status))

ProcessPayment(id, userId) ==
  Commit(processPayment(Here, id, userId), Call("processPayment", id, userId, ""))

CancelRental(id, userId) ==
  Commit(cancelRental(Here, id, userId), Call("cancelRental", id, userId, ""))

UploadPaymentReceipt(id, userId) ==
  Commit(uploadPaymentReceipt(Here, id, userId),
         Call("uploadPaymentReceipt", id, userId, ""))

ValidatePaymentReceipt(id, isApproved) ==
  Commit(validatePaymentReceipt(Here, id, isApproved),
         Call("validatePaymentReceipt", id, "moderator",
              IF isApproved THEN "approve" ELSE "reject"))

PayWithWallet(id, userId) ==
  /\ Len(transactions) < MaxTx
  /\ Commit(payWithWallet(Here, id, userId), Call("payWithWallet", id, userId, ""))

CancelExpiredApprovedRentals ==
  Commit(cancelExpiredApprovedRentals(Here, now),
         Call("cancelExpiredApprovedRentals", 0, "cron", ""))

Tick(d) ==
  /\ now + d <= MaxTime
  /\ now' = now + d
  /\ last' = Call("tick", 0, "clock", "")
  /\ UNCHANGED <<wallets, transactions, rentals, equipment, procs, sponsorships>>

(* The whole rental service around one rental, with the renter's wallet *)
NextRental ==
  \/ \E dto \in RentalDtoInputs(now, PaymentMethodInputs) : Create(dto, MaxRentals)
  \/ \E id \in 1 .. MaxRentals, st \in StatusInputs, u \in Actors :
       UpdateStatus(id, st, u)
  \/ \E id \in 1 .. MaxRentals, u \in Actors : ProcessPayment(id, u)
  \/ \E id \in 1 .. MaxRentals, u \in Actors : CancelRental(id, u)
  \/ \E id \in 1 .. MaxRentals, u \in Actors : UploadPaymentReceipt(id, u)
  \/ \E id \in 1 .. MaxRentals, ok \in BOOLEAN : ValidatePaymentReceipt(id, ok)
  \/ \E id \in 1 .. MaxRentals, u \in Actors : PayWithWallet(id, u)
  \/ CancelExpiredApprovedRentals
  \/ \E a \in RentalDeposits : DepositViaProxyPay("u2", a, TRUE)
  \/ \E d \in TickSteps : Tick(d)

SpecRental == InitRental /\ [][NextRental]_vars

(* Competing requests for one equipment: creation, the status changes, the
   expiry sweep and the clock, without the payment methods *)
NextApproval ==
  \/ \E dto \in RentalDtoInputs(now, {"WALLET"}) : Create(dto, MaxRequests)
  \/ \E id \in 1 .. MaxRequests, st \in StatusInputs, u \in Actors :
       UpdateStatus(id, st, u)
  \/ \E id \in 1 .. MaxRequests, u \in Actors : ProcessPayment(id, u)
  \/ \E id \in 1 .. MaxRequests, u \in Actors : CancelRental(id, u)
  \/ CancelExpiredApprovedRentals
  \/ \E d \in TickSteps : Tick(d)

SpecApproval == InitRental /\ [][NextApproval]_vars

-----------------------------------------------------------------------------
(* The listing of a wallet's transactions, next to the calls that write them *)

RECURSIVE Reversed(_)
Reversed(q) == IF q = << >> THEN << >> ELSE Append(Reversed(Tail(q)), Head(q))

(* findMany({ where: { walletId }, orderBy: { createdAt: 'desc' }, skip, take }) *)
PageOf(txs, walletId, page, limit) ==
  LET own == SelectSeq(txs, LAMBDA tx : tx.walletId = walletId)
      skip == (page - 1) * limit
      newestFirst == Reversed(own)
  IN SubSeq(newestFirst, skip + 1,
            IF skip + limit < Len(own) THEN skip + limit ELSE Len(own))

(* getWalletByUserId, then the page and the count *)
getWalletTransactions(L, userId, page, limit) ==
  LET w == getWalletByUserId(L, userId)
  IN IF w.err # "OK"
       THEN [err |-> w.err, wallets |-> w.wallets, transactions |-> w.transactions,
             page |-> << >>, total |-> 0]
       ELSE [err |-> "OK", wallets |-> w.wallets, transactions |-> w.transactions,
             page |-> PageOf(w.transactions, userId, page, limit),
             total |-> Len(SelectSeq(w.transactions,
                                     LAMBDA tx : tx.walletId = userId))]

PageInputs == {1, 2}
LimitInputs == {2}
ListedAmounts == {-40, 60}

GetWalletTransactions(userId, page, limit) ==
  LET r == getWalletTransactions(Ledger(wallets, transactions), userId, page, limit)
  IN /\ wallets' = r.wallets
     /\ transactions' = r.transactions
     /\ last' = [op |-> "getWalletTransactions", user |-> userId, amount |-> 0,
                 result |-> r.err, page |-> r.page, total |-> r.total]
     /\ UNCHANGED <<rentals, equipment, now, procs, sponsorships>>

NextWalletReads ==
  \/ \E u \in WalletUserInputs, page \in PageInputs, limit \in LimitInputs :
       GetWalletTransactions(u, page, limit)
  \/ \E u \in WalletUserInputs : GetWalletByUserId(u)
  \/ \E u \in WalletUserInputs, a \in ListedAmounts :
       CreateTransaction(u, "PAYMENT", a)

SpecWalletReads == InitWallet /\ [][NextWalletReads]_vars

-----------------------------------------------------------------------------
(* Interleaved getWalletByUserId: two requests, each at one of the awaited
   queries of getWalletByUserId and createWallet, next to the deposits of an
   owner who has a wallet *)

WalletOwners == {"u2", "u3", "ghost"}

(* Mutant: Wallet has no unique index on userId, the insert always succeeds *)
insertWallet_NoIndex(ws, userId, balance) ==
  [err |-> "OK", wallets |-> [ws EXCEPT ![userId] = NewWallet(balance)]]

(* wallet.create under the unique index wallets_userId_key *)
insertWallet(ws, userId, balance) ==
  IF ws[userId].exists
    THEN [err |-> "UniqueConstraint", wallets |-> ws]
    ELSE [err |-> "OK", wallets |-> [ws EXCEPT ![userId] = NewWallet(balance)]]

(* The call of process p returns or throws; inserted: its wallet.create
   added a row *)
WalletDone(p, userId, result, inserted) ==
  /\ procs' = [procs EXCEPT ![p] = [pc |-> "done", user |-> userId,
                                     result |-> result, inserted |-> inserted]]
  /\ last' = [op |-> "getWalletByUserId", user |-> userId, amount |-> 0,
              result |-> result]

(* wallet.findUnique({ where: { userId } }) of getWalletByUserId *)
getWallet_findUnique(p, userId) ==
  /\ procs[p].pc = "idle"
  /\ IF wallets[userId].exists
       THEN WalletDone(p, userId, "OK", FALSE)
       ELSE /\ procs' = [procs EXCEPT ![p] = [pc |-> "findUser", user |-> userId]]
            /\ UNCHANGED last
  /\ UNCHANGED <<wallets, transactions, rentals, equipment, now, sponsorships>>

(* user.findUnique of createWallet *)
createWallet_findUser(p) ==
  /\ procs[p].pc = "findUser"
  /\ IF procs[p].user \notin Users
       THEN WalletDone(p, procs[p].user, "NotFound", FALSE)
       ELSE /\ procs' = [procs EXCEPT ![p].pc = "findExisting"]
            /\ UNCHANGED last
  /\ UNCHANGED <<wallets, transactions, rentals, equipment, now, sponsorships>>

(* wallet.findUnique of createWallet *)
createWallet_findExisting(p) ==
  /\ procs[p].pc = "findExisting"
  /\ IF wallets[procs[p].user].exists
       THEN WalletDone(p, procs[p].user, "BadRequest", FALSE)
       ELSE /\ procs' = [procs EXCEPT ![p].pc = "create"]
            /\ UNCHANGED last
  /\ UNCHANGED <<wallets, transactions, rentals, equipment, now, sponsorships>>

(* wallet.create with balance 0; initialBalance is 0, so no transaction *)
createWallet_create(p) ==
  /\ procs[p].pc = "create"
  /\ LET r == insertWallet(wallets, procs[p].user, 0)
     IN /\ wallets' = r.wallets
        /\ WalletDone(p, procs[p].user, r.err, r.err = "OK")
  /\ UNCHANGED <<transactions, rentals, equipment, now, sponsorships>>

NextWalletRace ==
  \/ \E p \in Procs, u \in WalletOwners : getWallet_findUnique(p, u)
  \/ \E p \in Procs : createWallet_findUser(p)
  \/ \E p \in Procs : createWallet_findExisting(p)
  \/ \E p \in Procs : createWallet_create(p)
  \/ \E a \in RentalDeposits :
       wallets["u2"].exists /\ DepositViaProxyPay("u2", a, TRUE)

SpecWalletRace == InitWallet /\ [][NextWalletRace]_vars

-----------------------------------------------------------------------------
(* Interleaved payWithWallet: two requests for one approved rental, each at
   one of the awaited queries of the method *)

PayRaceBalances == {40, 60, 120, 180}
PayRaceCallers == {"u2", "u3"}

(* A request of u2 for e1 approved by the owner, after one deposit of b *)
PayRaceDb(b) ==
  LET dto == RentalDto("e1", "u2", 0, HoursPerDay, Some(60), "WALLET", FALSE, Null)
      d0 == Db([u \in UserIds |-> NoWallet], << >>, NoRentals, InitEquipment)
      l == depositViaProxyPay(LedgerOf(d0), "u2", b, TRUE)
      d1 == create(WithLedger(d0, l), dto, 0)
  IN updateStatus(d1, 1, "APPROVED", "u1", 0)

InitPayRace ==
  /\ \E b \in PayRaceBalances :
       /\ wallets = PayRaceDb(b).wallets
       /\ transactions = PayRaceDb(b).transactions
       /\ rentals = PayRaceDb(b).rentals
       /\ equipment = PayRaceDb(b).equipment
  /\ now = 0
  /\ procs = Idle
  /\ last = NoCall
  /\ sponsorships = << >>

(* The call of process p returns or throws *)
PayDone(p, result) ==
  /\ procs' = [procs EXCEPT ![p].pc = "done", ![p].result = result]
  /\ last' = [op |-> "payWithWallet", id |-> procs[p].id, actor |-> procs[p].user,
              arg |-> "", result |-> result]

(* rental.findUnique and the three checks on the row that was read *)
pay_findUnique(p, id, userId) ==
  /\ procs[p].pc = "idle"
  /\ LET call == [pc |-> "getWallet", id |-> id, user |-> userId, result |-> "",
                  totalAmount |-> IF id \in DOMAIN rentals
                                    THEN rentals[id].totalAmount ELSE 0]
         fails(result) ==
           /\ procs' = [procs EXCEPT ![p] = [call EXCEPT !.pc = "done",
                                                         !.result = result]]
           /\ last' = [op |-> "payWithWallet", id |-> id, actor |-> userId,
                       arg |-> "", result |-> result]
     IN IF id \notin DOMAIN rentals THEN fails("NotFound")
        ELSE IF rentals[id].renterId # userId THEN fails("Forbidden")
        ELSE IF rentals[id].paymentStatus = "PAID" THEN fails("BadRequest")
        ELSE procs' = [procs EXCEPT ![p] = call] /\ UNCHANGED last
  /\ UNCHANGED <<wallets, transactions, rentals, equipment, now, sponsorships>>

(* getWalletByUserId and the comparison of the balance that was read *)
pay_getWallet(p) ==
  /\ procs[p].pc = "getWallet"
  /\ LET w == getWalletByUserId(Ledger(wallets, transactions), procs[p].user)
     IN /\ wallets' = w.wallets
        /\ transactions' = w.transactions
        /\ IF w.err # "OK" THEN PayDone(p, w.err)
           ELSE IF w.wallets[procs[p].user].balance < procs[p].totalAmount
             THEN PayDone(p, "InsufficientBalance")
           ELSE procs' = [procs EXCEPT ![p].pc = "debit"] /\ UNCHANGED last
  /\ UNCHANGED <<rentals, equipment, now, sponsorships>>

(* createTransaction with the totalAmount that was read *)
pay_debit(p) ==
  /\ procs[p].pc = "debit"
  /\ LET c == createTransaction(Ledger(wallets, transactions),
                TxDto(procs[p].user, "PAYMENT", -procs[p].totalAmount,
                      "COMPLETED", procs[p].id))
     IN /\ wallets' = c.wallets
        /\ transactions' = c.transactions
        /\ IF c.err # "OK" THEN PayDone(p, c.err)
           ELSE procs' = [procs EXCEPT ![p].pc = "update"] /\ UNCHANGED last
  /\ UNCHANGED <<rentals, equipment, now, sponsorships>>

(* rental.update, then return *)
pay_update(p) ==
  /\ procs[p].pc = "update"
  /\ rentals' = markPaid(Here, procs[p].id).rentals
  /\ PayDone(p, "OK")
  /\ UNCHANGED <<wallets, transactions, equipment, now, sponsorships>>

NextPayRace ==
  \/ \E p \in Procs, u \in PayRaceCallers : pay_findUnique(p, 1, u)
  \/ \E p \in Procs : pay_getWallet(p)
  \/ \E p \in Procs : pay_debit(p)
  \/ \E p \in Procs : pay_update(p)

SpecPayRace == InitPayRace /\ [][NextPayRace]_vars

-----------------------------------------------------------------------------
(* Requests with a priority fee: the renter's deposits, the requests, and the
   query of the fee's try block that throws *)

PriorityAmounts == {Null, Some(0), Some(30), Some(50)}
PriorityRenters == {"u1", "u2"}

PriorityDtoInputs(t) ==
  {RentalDto("e1", u, StartOfDay(t), StartOfDay(t) + HoursPerDay, Some(60),
             "WALLET", prio, amount) :
     u \in PriorityRenters, prio \in BOOLEAN, amount \in PriorityAmounts}

CreatePriority(dto, fault) ==
  /\ Len(rentals) < MaxRequests
  /\ Len(transactions) < MaxTx
  /\ Commit(createWith(Here, dto, now, fault),
            [op |-> "create", id |-> Len(rentals) + 1, actor |-> dto.renterId,
             arg |-> dto.paymentMethod, result |-> "OK", dto |-> dto,
             fault |-> fault])

NextPriority ==
  \/ \E dto \in PriorityDtoInputs(now), fault \in PriorityFaults :
       CreatePriority(dto, fault)
  \/ \E a \in RentalDeposits : DepositViaProxyPay("u2", a, TRUE)

SpecPriority == InitRental /\ [][NextPriority]_vars

-----------------------------------------------------------------------------
(* Requests over the dates around today, for known and unknown equipment and
   renters, next to the approvals that make the equipment unavailable *)

StartOffsets == {-HoursPerDay, 0, HoursPerDay}
LengthOffsets == {-HoursPerDay, 0, HoursPerDay}
DatedEquipment == {"e0", "e1"}
DatedStatusInputs == {"APPROVED", "CANCELLED"}

DatedDtoInputs(t) ==
  {RentalDto(e, u, StartOfDay(t) + sd, StartOfDay(t) + sd + len, Some(60),
             "WALLET", FALSE, Null) :
     e \in DatedEquipment, u \in RenterInputs, sd \in StartOffsets,
     len \in LengthOffsets}

CreateDated(dto) == CreatePriority(dto, "none")

NextDates ==
  \/ \E dto \in DatedDtoInputs(now) : CreateDated(dto)
  \/ \E id \in 1 .. MaxRequests, st \in DatedStatusInputs, u \in Actors :
       UpdateStatus(id, st, u)
  \/ \E d \in TickSteps : Tick(d)

SpecDates == InitRental /\ [][NextDates]_vars

-----------------------------------------------------------------------------
(* Requests over the amounts, the rates, the periods and the lengths that
   decide the stored totalAmount *)

AmountInputs == {Null, Some(0), Some(60)}
RateInputs == {Null, Some(50)}
PeriodInputs == {"", "HOURLY", "DAILY", "WEEKLY", "MONTHLY"}
DayInputs == {1, 4, 8, 31}

AmountDtoInputs(t) ==
  {[RentalDto("e1", "u2", StartOfDay(t), StartOfDay(t) + days * HoursPerDay,
              total, "WALLET", FALSE, Null)
      EXCEPT !.dailyRate = rate, !.pricePeriod = period] :
     total \in AmountInputs, rate \in RateInputs, period \in PeriodInputs,
     days \in DayInputs}

CreateAmount(dto) == CreatePriority(dto, "none")

NextAmounts == \E dto \in AmountDtoInputs(now) : CreateAmount(dto)

SpecAmounts == InitRental /\ [][NextAmounts]_vars

-----------------------------------------------------------------------------
(* Requests whose amounts are of either sign (@IsNumber sets no minimum), and
   their payment from the wallet *)

SignedTotals == {Some(-60), Some(60)}
SignedPriorityAmounts == {Null, Some(-30), Some(30)}

SignedDtoInputs(t) ==
  {RentalDto("e1", "u2", StartOfDay(t), StartOfDay(t) + HoursPerDay, total,
             "WALLET", prio, amount) :
     total \in SignedTotals, prio \in BOOLEAN, amount \in SignedPriorityAmounts}

CreateSigned(dto) == CreatePriority(dto, "none")

NextSigned ==
  \/ \E dto \in SignedDtoInputs(now) : CreateSigned(dto)
  \/ \E id \in 1 .. MaxRequests, u \in Actors : PayWithWallet(id, u)
  \/ \E a \in RentalDeposits : DepositViaProxyPay("u2", a, TRUE)

SpecSigned == InitRental /\ [][NextSigned]_vars

-----------------------------------------------------------------------------
(* The expiry sweep on its own: it runs over two rentals of one equipment in
   the states the lifecycle leaves them in, at the hours around the timeout *)

SweepApprovals == {Null, Some(0), Some(1), Some(2)}
SweepEndDates == {TimeoutHours, 2 * TimeoutHours}

(* The rows of Rental the sweep can meet: a PENDING rental was never approved,
   an APPROVED one carries the time of its approval *)
SweepRows ==
  LET dto == RentalDto("e1", "u2", 0, TimeoutHours, Some(60), "WALLET", FALSE, Null)
      row == RentalRow(dto, InitEquipment["e1"], 0)
  IN {[row EXCEPT !.status = st, !.paymentStatus = ps, !.approvedAt = at,
                  !.endDate = ed] :
        st \in RentalStatus, ps \in {"PENDING", "PAID"},
        at \in SweepApprovals, ed \in SweepEndDates}

SweepRow(r) ==
  /\ r \in SweepRows
  /\ r.status = "PENDING" => r.approvedAt = Null
  /\ r.status = "APPROVED" => r.approvedAt # Null
  /\ r.status \in {"PENDING", "APPROVED"} => r.paymentStatus = "PENDING"

InitSweep ==
  /\ wallets = [u \in UserIds |-> NoWallet]
  /\ transactions = << >>
  /\ \E a \in {r \in SweepRows : SweepRow(r)}, b \in {r \in SweepRows : SweepRow(r)} :
       rentals = << a, b >>
  /\ \E avail \in BOOLEAN :
       equipment = [InitEquipment EXCEPT !["e1"].isAvailable = avail]
  /\ now = TimeoutHours
  /\ procs = Idle
  /\ last = NoCall
  /\ sponsorships = << >>

(* One run of the cron job; faults names, for each rental the query returned,
   the query of its turn that throws *)
SweepWith(faults) ==
  LET selected == expiredRentals(Here, now)
      run == cancelEachWith(Here, selected, now, faults, {})
  IN Commit(run.db,
            [op |-> "cancelExpiredApprovedRentals", id |-> 0, actor |-> "cron",
             arg |-> "", result |-> "OK", selected |-> selected,
             faults |-> faults, returned |-> run.returned])

NextSweep ==
  \/ \E faults \in [expiredRentals(Here, now) -> FaultPoints] : SweepWith(faults)
  \/ Tick(1)

SpecSweep == InitSweep /\ [][NextSweep]_vars

-----------------------------------------------------------------------------
(* The daily reminder job over two rentals in the states the lifecycle leaves
   them in, with the status changes and cancellations of the users in between *)

ReminderDates == {0, HoursPerDay, 2 * HoursPerDay}
ReminderStatusInputs == {"ACTIVE", "COMPLETED"}

(* A soft-deleted rental was cancelled, and may have been paid afterwards *)
ReminderRows ==
  LET dto(rd) == RentalDto("e1", "u2", 0, rd + HoursPerDay, Some(60), "WALLET", FALSE, Null)
      row(rd) == RentalRow(dto(rd), InitEquipment["e1"], 0)
  IN {[row(rd) EXCEPT !.status = st, !.deleted = del] :
        rd \in ReminderDates, st \in RentalStatus, del \in BOOLEAN}

ReminderRow(r) ==
  /\ r \in ReminderRows
  /\ r.deleted => r.status \in {"CANCELLED", "PAID"}

InitReminders ==
  /\ wallets = [u \in UserIds |-> NoWallet]
  /\ transactions = << >>
  /\ \E a \in {r \in ReminderRows : ReminderRow(r)},
        b \in {r \in ReminderRows : ReminderRow(r)} : rentals = << a, b >>
  /\ equipment = InitEquipment
  /\ now = 0
  /\ procs = Idle
  /\ last = NoCall
  /\ sponsorships = << >>

(* One run of the cron job: the call of the service, then the emails;
   emailFails is a throw of emailService.sendReturnReminder, which the job
   catches and logs *)
SendReturnReminders(emailFails) ==
  Commit(sendReturnReminders(Here, now),
         [op |-> "sendReturnReminders", id |-> 0, actor |-> "cron", arg |-> "",
          result |-> "OK", returned |-> rentalsToRemind(Here, now),
          emailFails |-> emailFails])

NextReminders ==
  \/ \E emailFails \in BOOLEAN : SendReturnReminders(emailFails)
  \/ \E id \in 1 .. MaxRequests, st \in ReminderStatusInputs, u \in Actors :
       UpdateStatus(id, st, u)
  \/ \E id \in 1 .. MaxRequests, u \in Actors : CancelRental(id, u)
  \/ Tick(HoursPerDay)

SpecReminders == InitReminders /\ [][NextReminders]_vars

-----------------------------------------------------------------------------
(* The expiry sweep interleaved with the calls of the users: the sweep gives up
   control at each awaited query, and a call of a user runs in between *)

SweepRaceMethods == {"RECEIPT", "WALLET"}

(* Two requests for e1 at hour 0, the first approved by the owner (the second
   is rejected by the approval), and two deposits of the renter *)
SweepRaceDb(method) ==
  LET dto == RentalDto("e1", "u2", 0, 2 * TimeoutHours, Some(60), method, FALSE, Null)
      d0 == Db([u \in UserIds |-> NoWallet], << >>, NoRentals, InitEquipment)
      d1 == create(create(d0, dto, 0), dto, 0)
      d2 == updateStatus(d1, 1, "APPROVED", "u1", 0)
      l1 == depositViaProxyPay(LedgerOf(d2), "u2", 40, TRUE)
      l2 == depositViaProxyPay(Ledger(l1.wallets, l1.transactions), "u2", 40, TRUE)
  IN WithLedger(d2, l2)

InitSweepRace ==
  /\ \E method \in SweepRaceMethods :
       /\ wallets = SweepRaceDb(method).wallets
       /\ transactions = SweepRaceDb(method).transactions
       /\ rentals = SweepRaceDb(method).rentals
       /\ equipment = SweepRaceDb(method).equipment
  /\ now = TimeoutHours + 1
  /\ procs = Idle
  /\ last = NoCall
  /\ sponsorships = << >>

SweepStep(p, op, id) ==
  /\ last' = Call(op, id, "cron", "")
  /\ UNCHANGED <<wallets, transactions, now, sponsorships>>

(* rental.findMany *)
sweep_findMany(p) ==
  /\ procs[p].pc = "idle"
  /\ procs' = [procs EXCEPT ![p] = [pc |-> "loop", todo |-> expiredRentals(Here, now),
                                     returned |-> {}]]
  /\ SweepStep(p, "sweep.findMany", 0)
  /\ UNCHANGED <<rentals, equipment>>

(* rental.update({ where: { id }, data: { status: 'CANCELLED' } }) *)
sweep_update(p) ==
  /\ procs[p].pc = "loop"
  /\ procs[p].todo # {}
  /\ LET id == Min(procs[p].todo)
     IN /\ rentals' = [rentals EXCEPT ![id].status = "CANCELLED"]
        /\ procs' = [procs EXCEPT ![p] = [pc |-> "findFirst", todo |-> procs[p].todo,
                                           returned |-> procs[p].returned]]
        /\ SweepStep(p, "sweep.update", id)
  /\ UNCHANGED equipment

(* rental.findFirst: with another held rental the turn ends here *)
sweep_findFirst(p) ==
  /\ procs[p].pc = "findFirst"
  /\ LET id == Min(procs[p].todo)
     IN /\ procs' = [procs EXCEPT ![p] =
                       IF hasApprovedRentals(Here, rentals[id].equipmentId, {id}, now)
                         THEN [pc |-> "loop", todo |-> procs[p].todo \ {id},
                               returned |-> procs[p].returned \cup {id}]
                         ELSE [pc |-> "equipment", todo |-> procs[p].todo,
                               returned |-> procs[p].returned]]
        /\ SweepStep(p, "sweep.findFirst", id)
  /\ UNCHANGED <<rentals, equipment>>

(* equipment.update({ data: { isAvailable: true } }) and the push *)
sweep_equipment(p) ==
  /\ procs[p].pc = "equipment"
  /\ LET id == Min(procs[p].todo)
     IN /\ equipment' = [equipment EXCEPT ![rentals[id].equipmentId].isAvailable = TRUE]
        /\ procs' = [procs EXCEPT ![p] = [pc |-> "loop", todo |-> procs[p].todo \ {id},
                                           returned |-> procs[p].returned \cup {id}]]
        /\ SweepStep(p, "sweep.equipment", id)
  /\ UNCHANGED rentals

(* return cancelledRentals *)
sweep_return(p) ==
  /\ procs[p].pc = "loop"
  /\ procs[p].todo = {}
  /\ procs' = [procs EXCEPT ![p] = [pc |-> "done", returned |-> procs[p].returned]]
  /\ SweepStep(p, "sweep.return", 0)
  /\ UNCHANGED <<rentals, equipment>>

(* One run of the cron job by p1, and the calls of the renter, the owner and
   the moderator *)
NextSweepRace ==
  \/ sweep_findMany("p1")
  \/ sweep_update("p1")
  \/ sweep_findFirst("p1")
  \/ sweep_equipment("p1")
  \/ sweep_return("p1")
  \/ \E id \in 1 .. MaxRequests, u \in Actors : PayWithWallet(id, u)
  \/ \E id \in 1 .. MaxRequests, ok \in BOOLEAN : ValidatePaymentReceipt(id, ok)
  \/ \E id \in 1 .. MaxRequests, u \in Actors : CancelRental(id, u)
  \/ \E id \in 1 .. MaxRequests, u \in Actors : UpdateStatus(id, "CANCELLED", u)

SpecSweepRace == InitSweepRace /\ [][NextSweepRace]_vars

-----------------------------------------------------------------------------
(* An approval interleaved with a creation for the same equipment: each
   handler gives up control at its awaited queries *)

ApprovalRaceRequests == {1, 2}

(* n requests of tenant u2 for e1, made at hour 0 *)
RECURSIVE ApprovalRaceDb(_)
ApprovalRaceDb(n) ==
  IF n = 0
    THEN Db([u \in UserIds |-> NoWallet], << >>, NoRentals, InitEquipment)
    ELSE create(ApprovalRaceDb(n - 1),
                RentalDto("e1", "u2", 0, HoursPerDay, Some(60), "WALLET", FALSE, Null), 0)

InitApprovalRace ==
  /\ wallets = [u \in UserIds |-> NoWallet]
  /\ transactions = << >>
  /\ \E n \in ApprovalRaceRequests : rentals = ApprovalRaceDb(n).rentals
  /\ equipment = InitEquipment
  /\ now = 0
  /\ procs = Idle
  /\ last = NoCall
  /\ sponsorships = << >>

Returned(p, call, result) ==
  /\ procs' = [procs EXCEPT ![p] = [pc |-> "done", id |-> call.id, result |-> result]]
  /\ last' = [call EXCEPT !.result = result]

(* findOne and the two permission checks of updateStatus(id, 'APPROVED', userId) *)
approve_findOne(p, id, userId) ==
  /\ procs[p].pc = "idle"
  /\ LET call == Call("updateStatus", id, userId, "APPROVED")
     IN IF findOne(Here, id, userId) # "OK"
          THEN Returned(p, call, findOne(Here, id, userId))
        ELSE IF approveForbidden(rentals[id], "APPROVED", userId)
          THEN Returned(p, call, "Forbidden")
        ELSE /\ procs' = [procs EXCEPT ![p] = [pc |-> "update", call |-> call]]
             /\ last' = Call("updateStatus.findOne", id, userId, "APPROVED")
  /\ UNCHANGED <<wallets, transactions, rentals, equipment, now, sponsorships>>

(* rental.update({ data: { status } }) *)
approve_update(p) ==
  /\ procs[p].pc = "update"
  /\ rentals' = [rentals EXCEPT ![procs[p].call.id].status = "APPROVED"]
  /\ procs' = [procs EXCEPT ![p].pc = "equipment"]
  /\ last' = [procs[p].call EXCEPT !.op = "updateStatus.update"]
  /\ UNCHANGED <<wallets, transactions, equipment, now, sponsorships>>

(* equipment.update({ data: { isAvailable: false } }) *)
approve_equipment(p) ==
  /\ procs[p].pc = "equipment"
  /\ equipment' =
       [equipment EXCEPT ![rentals[procs[p].call.id].equipmentId].isAvailable = FALSE]
  /\ procs' = [procs EXCEPT ![p].pc = "updateMany"]
  /\ last' = [procs[p].call EXCEPT !.op = "updateStatus.equipment"]
  /\ UNCHANGED <<wallets, transactions, rentals, now, sponsorships>>

(* rental.updateMany({ where: { status: 'PENDING' }, data: { status: 'REJECTED' } }) *)
approve_updateMany(p) ==
  /\ procs[p].pc = "updateMany"
  /\ rentals' = rejectOtherPending(rentals, procs[p].call.id)
  /\ procs' = [procs EXCEPT ![p].pc = "approvedAt"]
  /\ last' = [procs[p].call EXCEPT !.op = "updateStatus.updateMany"]
  /\ UNCHANGED <<wallets, transactions, equipment, now, sponsorships>>

(* rental.update({ data: { approvedAt: new Date() } }), then return *)
approve_approvedAt(p) ==
  /\ procs[p].pc = "approvedAt"
  /\ rentals' = [rentals EXCEPT ![procs[p].call.id].approvedAt = Some(now)]
  /\ Returned(p, procs[p].call, "OK")
  /\ UNCHANGED <<wallets, transactions, equipment, now, sponsorships>>

(* The reads and checks of create, up to rental.create *)
create_findUnique(p, dto) ==
  /\ procs[p].pc = "idle"
  /\ Len(rentals) < MaxRequests + 1
  /\ LET call == Call("create", 0, dto.renterId, dto.paymentMethod)
     IN IF create(Here, dto, now).err # "OK"
          THEN Returned(p, call, create(Here, dto, now).err)
          ELSE /\ procs' = [procs EXCEPT ![p] = [pc |-> "insert", dto |-> dto]]
               /\ last' = [call EXCEPT !.op = "create.findUnique"]
  /\ UNCHANGED <<wallets, transactions, rentals, equipment, now, sponsorships>>

(* rental.create, then return: the request carries no priority fee *)
create_insert(p) ==
  /\ procs[p].pc = "insert"
  /\ LET dto == procs[p].dto
     IN /\ rentals' = Append(rentals, RentalRow(dto, equipment[dto.equipmentId], now))
        /\ Returned(p, Call("create", Len(rentals) + 1, dto.renterId, dto.paymentMethod),
                    "OK")
  /\ UNCHANGED <<wallets, transactions, equipment, now, sponsorships>>

(* p1 approves, p2 creates *)
NextApprovalRace ==
  \/ \E id \in 1 .. MaxRequests, u \in Actors : approve_findOne("p1", id, u)
  \/ approve_update("p1")
  \/ approve_equipment("p1")
  \/ approve_updateMany("p1")
  \/ approve_approvedAt("p1")
  \/ \E dto \in RentalDtoInputs(now, {"WALLET"}) : create_findUnique("p2", dto)
  \/ create_insert("p2")

SpecApprovalRace == InitApprovalRace /\ [][NextApprovalRace]_vars

-----------------------------------------------------------------------------
(* Approvals that may be cut short, the hourly sweep and the clock: the
   approvals are made while the timeout still fits before MaxTime, and a call
   lasts less than a step of the clock *)

(* The awaited query at which process p stands throws: updateStatus ends
   there, after rental.update has written the status *)
approve_throws(p) ==
  /\ procs[p].pc \in {"equipment", "updateMany", "approvedAt"}
  /\ Returned(p, procs[p].call, "Error")
  /\ UNCHANGED <<wallets, transactions, rentals, equipment, now, sponsorships>>

ApproveStep(p) ==
  \/ approve_update(p)
  \/ approve_equipment(p)
  \/ approve_updateMany(p)
  \/ approve_approvedAt(p)
  \/ approve_throws(p)

Quiet == \A p \in Procs : procs[p].pc \in {"idle", "done"}

HourPasses == Quiet /\ \E d \in TickSteps : Tick(d)

HourlySweep == Quiet /\ CancelExpiredApprovedRentals

NextExpiry ==
  \/ \E p \in Procs, id \in 1 .. MaxRequests, u \in Actors :
       now + TimeoutHours <= MaxTime /\ approve_findOne(p, id, u)
  \/ \E p \in Procs : ApproveStep(p)
  \/ HourPasses
  \/ HourlySweep

(* @Cron(EVERY_HOUR) keeps the sweep running, the clock advances, and a call
   in progress goes on to its next query or throws *)
SpecExpiry ==
  /\ InitApprovalRace
  /\ [][NextExpiry]_vars
  /\ WF_vars(HourPasses)
  /\ WF_vars(HourlySweep)
  /\ \A p \in Procs : WF_vars(ApproveStep(p))

-----------------------------------------------------------------------------
(* Ad sponsorships *)

(* enum SponsorshipStatus of the Prisma schema *)
SponsorshipStatus == {"ACTIVE", "PAUSED", "EXPIRED", "CANCELLED"}

(* The three tables the sponsorship service writes, and the outcome of the call *)
Sp(ws, txs, sps) ==
  [err |-> "OK", wallets |-> ws, transactions |-> txs, sponsorships |-> sps]

(* Mutant: a sponsorship that starts at this very instant is not seen *)
InWindow_StrictStart(s, t) ==
  s.status = "ACTIVE" /\ s.startDate < t /\ s.endDate >= t

(* status: 'ACTIVE', startDate: { lte: now }, endDate: { gte: now } *)
InWindow(s, t) ==
  s.status = "ACTIVE" /\ s.startDate <= t /\ s.endDate >= t

(* adSponsorship.findFirst({ where: { sponsorId, ... } }) *)
existingSponsorship(sps, sponsorId, t) ==
  \E i \in DOMAIN sps : sps[i].sponsorId = sponsorId /\ InWindow(sps[i], t)

(* Mutant: setDate is given the duration in hours *)
SponsorshipRow_EndsInHours(sponsorId, dto, t) ==
  [sponsorId |-> sponsorId, targetUserId |-> dto.targetUserId,
   equipmentId |-> dto.equipmentId, amount |-> dto.amount,
   duration |-> dto.duration, startDate |-> t, endDate |-> t + dto.duration,
   status |-> "ACTIVE"]

(* The row adSponsorship.create inserts: endDate.setDate(getDate() + duration) *)
SponsorshipRow(sponsorId, dto, t) ==
  [sponsorId |-> sponsorId, targetUserId |-> dto.targetUserId,
   equipmentId |-> dto.equipmentId, amount |-> dto.amount,
   duration |-> dto.duration, startDate |-> t,
   endDate |-> t + dto.duration * HoursPerDay, status |-> "ACTIVE"]

(* equipment.findUnique({ where: { id, ownerId: sponsorId } }) *)
ownsEquipment(sponsorId, equipmentId) ==
  equipmentId \in EquipmentIds /\ EquipmentOwner[equipmentId] = sponsorId

(* The debit that follows the write of the sponsorship: a throw of
   createTransaction leaves the write in place *)
promotionFee(P, sponsorId, amount, id) ==
  LET c == createTransaction(Ledger(P.wallets, P.transactions),
             TxDto(sponsorId, "PROMOTION_FEE", -amount, "COMPLETED", id))
  IN [P EXCEPT !.err = c.err, !.wallets = c.wallets, !.transactions = c.transactions]

(* "" is an absent targetUserId or equipmentId *)
createSponsorship(P, sponsorId, dto, t) ==
  IF dto.amount <= 0 THEN [P EXCEPT !.err = "BadRequest"]
  ELSE IF dto.duration <= 0 THEN [P EXCEPT !.err = "BadRequest"]
  ELSE IF existingSponsorship(P.sponsorships, sponsorId, t)
    THEN [P EXCEPT !.err = "BadRequest"]
  ELSE LET w == getWalletByUserId(Ledger(P.wallets, P.transactions), sponsorId)
           Pw == [P EXCEPT !.wallets = w.wallets, !.transactions = w.transactions]
       IN IF w.err # "OK" THEN [Pw EXCEPT !.err = w.err]
          ELSE IF w.wallets[sponsorId].balance < dto.amount
            THEN [Pw EXCEPT !.err = "InsufficientBalance"]
          ELSE IF dto.equipmentId # "" /\ ~ownsEquipment(sponsorId, dto.equipmentId)
            THEN [Pw EXCEPT !.err = "NotFound"]
          ELSE IF dto.targetUserId # "" /\ dto.targetUserId \notin Users
            THEN [Pw EXCEPT !.err = "NotFound"]
          ELSE promotionFee(
                 [Pw EXCEPT !.sponsorships = Append(@, SponsorshipRow(sponsorId, dto, t))],
                 sponsorId, dto.amount, Len(P.sponsorships) + 1)

(* SponsorshipService.updateStatus *)
sponsorship_updateStatus(P, id, status, userId) ==
  IF id \notin DOMAIN P.sponsorships THEN [P EXCEPT !.err = "NotFound"]
  ELSE IF P.sponsorships[id].sponsorId # userId THEN [P EXCEPT !.err = "BadRequest"]
  ELSE IF status \notin SponsorshipStatus THEN [P EXCEPT !.err = "InternalError"]
  ELSE [P EXCEPT !.sponsorships[id].status = status]

(* Mutant: the updateMany has no filter on the status *)
expireOldSponsorships_AnyStatus(P, t) ==
  [P EXCEPT !.sponsorships =
     [i \in DOMAIN @ |->
        IF @[i].endDate < t THEN [@[i] EXCEPT !.status = "EXPIRED"] ELSE @[i]]]

(* updateMany: status ACTIVE, endDate < now -> EXPIRED *)
expireOldSponsorships(P, t) ==
  [P EXCEPT !.sponsorships =
     [i \in DOMAIN @ |->
        IF @[i].status = "ACTIVE" /\ @[i].endDate < t
          THEN [@[i] EXCEPT !.status = "EXPIRED"] ELSE @[i]]]

(* Mutant: the update leaves the amount as it was *)
extended_KeepsAmount(s, additionalDays, additionalAmount) ==
  [s EXCEPT !.endDate = @ + additionalDays * HoursPerDay,
            !.duration = @ + additionalDays]

(* data: { endDate: newEndDate, duration: + additionalDays, amount: + additionalAmount } *)
extended(s, additionalDays, additionalAmount) ==
  [s EXCEPT !.endDate = @ + additionalDays * HoursPerDay,
            !.duration = @ + additionalDays,
            !.amount = @ + additionalAmount]

extendSponsorship(P, sponsorId, id, additionalDays, additionalAmount) ==
  IF additionalDays <= 0 THEN [P EXCEPT !.err = "BadRequest"]
  ELSE IF additionalAmount <= 0 THEN [P EXCEPT !.err = "BadRequest"]
  ELSE IF id \notin DOMAIN P.sponsorships THEN [P EXCEPT !.err = "NotFound"]
  ELSE IF P.sponsorships[id].sponsorId # sponsorId THEN [P EXCEPT !.err = "BadRequest"]
  ELSE IF P.sponsorships[id].status # "ACTIVE" THEN [P EXCEPT !.err = "BadRequest"]
  ELSE LET w == getWalletByUserId(Ledger(P.wallets, P.transactions), sponsorId)
           Pw == [P EXCEPT !.wallets = w.wallets, !.transactions = w.transactions]
       IN IF w.err # "OK" THEN [Pw EXCEPT !.err = w.err]
          ELSE IF w.wallets[sponsorId].balance < additionalAmount
            THEN [Pw EXCEPT !.err = "InsufficientBalance"]
          ELSE promotionFee(
                 [Pw EXCEPT !.sponsorships[id] =
                              extended(@, additionalDays, additionalAmount)],
                 sponsorId, additionalAmount, id)

-----------------------------------------------------------------------------
(* Sequential specification of the sponsorship service: one action per method *)

Sponsors == {"u1", "u2"}
SponsorshipStatusInputs == SponsorshipStatus \cup {"DELETED"}
SponsorDeposits == {40, 80}
ExtendDays == {0, 1}
ExtendAmounts == {0, 40}

SponsorshipDto(target, e, amount, duration) ==
  [targetUserId |-> target, equipmentId |-> e, amount |-> amount,
   duration |-> duration]

(* A general sponsorship of 40 for one day, and the requests that differ from
   it in one field *)
SponsorshipDtoInputs ==
  {SponsorshipDto("", "", a, 1) : a \in {-40, 0, 40, 80}}
  \cup {SponsorshipDto("", "", 40, d) : d \in {-1, 0, 2}}
  \cup {SponsorshipDto("", e, 40, 1) : e \in {"e0", "e1"}}
  \cup {SponsorshipDto(u, "", 40, 1) : u \in {"u3", "ghost"}}

There == Sp(wallets, transactions, sponsorships)

(* Commit the outcome P of a sponsorship call and record the call *)
CommitSp(P, call) ==
  /\ wallets' = P.wallets
  /\ transactions' = P.transactions
  /\ sponsorships' = P.sponsorships
  /\ last' = [call EXCEPT !.result = P.err]
  /\ UNCHANGED <<rentals, equipment, now, procs>>

CreateSponsorship(sponsorId, dto) ==
  /\ Len(sponsorships) < MaxSponsorships
  /\ Len(transactions) < MaxTx
  /\ CommitSp(createSponsorship(There, sponsorId, dto, now),
              [op |-> "createSponsorship", id |-> Len(sponsorships) + 1,
               actor |-> sponsorId, dto |-> dto, result |-> "OK"])

SponsorshipUpdateStatus(id, status, userId) ==
  CommitSp(sponsorship_updateStatus(There, id, status, userId),
           Call("sponsorship.updateStatus", id, userId, status))

ExtendSponsorship(sponsorId, id, additionalDays, additionalAmount) ==
  /\ Len(transactions) < MaxTx
  /\ CommitSp(extendSponsorship(There, sponsorId, id, additionalDays, additionalAmount),
              [op |-> "extendSponsorship", id |-> id, actor |-> sponsorId,
               days |-> additionalDays, amount |-> additionalAmount,
               result |-> "OK"])

ExpireOldSponsorships ==
  CommitSp(expireOldSponsorships(There, now),
           Call("expireOldSponsorships", 0, "cron", ""))

NextSponsorship ==
  \/ \E u \in Sponsors, dto \in SponsorshipDtoInputs : CreateSponsorship(u, dto)
  \/ \E id \in 1 .. MaxSponsorships, st \in SponsorshipStatusInputs, u \in Sponsors :
       SponsorshipUpdateStatus(id, st, u)
  \/ \E u \in Sponsors, id \in 1 .. MaxSponsorships, d \in ExtendDays,
        a \in ExtendAmounts : ExtendSponsorship(u, id, d, a)
  \/ ExpireOldSponsorships
  \/ \E u \in Sponsors, a \in SponsorDeposits : DepositViaProxyPay(u, a, TRUE)
  \/ \E d \in TickSteps : Tick(d)

SpecSponsorship == InitWallet /\ [][NextSponsorship]_vars

-----------------------------------------------------------------------------
(* One wallet under every service that writes it, one call at a time: the
   wallet's own methods, the payment of a rental, and the sponsorships *)

BalanceOwner == "u2"
BalanceSponsorAmounts == {-40, 40, 80}
BalanceExtendAmounts == {-40, 40}

NextBalance ==
  \/ \E b \in InitialBalances : CreateWallet(BalanceOwner, b)
  \/ \E a \in TxAmounts : CreateTransaction(BalanceOwner, "PAYMENT", a)
  \/ \E a \in GatewayAmounts : DepositViaProxyPay(BalanceOwner, a, TRUE)
  \/ \E a \in GatewayAmounts : WithdrawViaProxyPay(BalanceOwner, a)
  \/ \E dto \in SignedDtoInputs(now) : Create(dto, MaxRentals)
  \/ \E id \in 1 .. MaxRentals : PayWithWallet(id, BalanceOwner)
  \/ \E a \in BalanceSponsorAmounts :
       CreateSponsorship(BalanceOwner, SponsorshipDto("", "", a, 1))
  \/ \E id \in 1 .. MaxSponsorships, a \in BalanceExtendAmounts :
       ExtendSponsorship(BalanceOwner, id, 1, a)

SpecBalance == InitWallet /\ [][NextBalance]_vars

-----------------------------------------------------------------------------
(* Interleaved createSponsorship: two requests of one sponsor, each giving up
   control at its awaited queries, and the status changes of the sponsor *)

RaceSponsor == "u1"
SponsorRaceBalances == {40, 80}

(* The wallet of RaceSponsor after one deposit of b *)
InitSponsorRace ==
  /\ \E b \in SponsorRaceBalances :
       LET l == depositViaProxyPay(Ledger([u \in UserIds |-> NoWallet], << >>),
                                   RaceSponsor, b, TRUE)
       IN wallets = l.wallets /\ transactions = l.transactions
  /\ rentals = NoRentals
  /\ equipment = InitEquipment
  /\ now = 0
  /\ procs = Idle
  /\ last = NoCall
  /\ sponsorships = << >>

SponsorCall(dto) ==
  [op |-> "createSponsorship", id |-> 0, actor |-> RaceSponsor, dto |-> dto,
   result |-> "OK"]

SponsorReturned(p, dto, id, result) ==
  /\ procs' = [procs EXCEPT ![p] = [pc |-> "done", dto |-> dto, result |-> result]]
  /\ last' = [SponsorCall(dto) EXCEPT !.id = id, !.result = result]

(* The two checks of the DTO and adSponsorship.findFirst *)
createSponsorship_findFirst(p, dto) ==
  /\ procs[p].pc = "idle"
  /\ IF dto.amount <= 0 \/ dto.duration <= 0
          \/ existingSponsorship(sponsorships, RaceSponsor, now)
       THEN SponsorReturned(p, dto, 0, "BadRequest")
       ELSE /\ procs' = [procs EXCEPT ![p] = [pc |-> "wallet", dto |-> dto]]
            /\ last' = [SponsorCall(dto) EXCEPT !.op = "createSponsorship.findFirst"]
  /\ UNCHANGED <<wallets, transactions, rentals, equipment, now, sponsorships>>

(* getWalletByUserId and the balance check, then the lookups of the equipment
   and of the target user *)
createSponsorship_getWallet(p) ==
  /\ procs[p].pc = "wallet"
  /\ LET dto == procs[p].dto
     IN IF wallets[RaceSponsor].balance < dto.amount
          THEN SponsorReturned(p, dto, 0, "InsufficientBalance")
        ELSE IF \/ dto.equipmentId # "" /\ ~ownsEquipment(RaceSponsor, dto.equipmentId)
                \/ dto.targetUserId # "" /\ dto.targetUserId \notin Users
          THEN SponsorReturned(p, dto, 0, "NotFound")
        ELSE /\ procs' = [procs EXCEPT ![p].pc = "create"]
             /\ last' = [SponsorCall(dto) EXCEPT !.op = "createSponsorship.getWallet"]
  /\ UNCHANGED <<wallets, transactions, rentals, equipment, now, sponsorships>>

(* adSponsorship.create *)
createSponsorship_create(p) ==
  /\ procs[p].pc = "create"
  /\ sponsorships' = Append(sponsorships, SponsorshipRow(RaceSponsor, procs[p].dto, now))
  /\ procs' = [procs EXCEPT ![p] = [pc |-> "debit", dto |-> procs[p].dto,
                                     id |-> Len(sponsorships) + 1]]
  /\ last' = [SponsorCall(procs[p].dto) EXCEPT !.op = "createSponsorship.create"]
  /\ UNCHANGED <<wallets, transactions, rentals, equipment, now>>

(* walletService.createTransaction, then return *)
createSponsorship_debit(p) ==
  /\ procs[p].pc = "debit"
  /\ LET P == promotionFee(There, RaceSponsor, procs[p].dto.amount, procs[p].id)
     IN /\ wallets' = P.wallets
        /\ transactions' = P.transactions
        /\ SponsorReturned(p, procs[p].dto, procs[p].id, P.err)
  /\ UNCHANGED <<rentals, equipment, now, sponsorships>>

NextSponsorRace ==
  \/ \E p \in Procs, dto \in SponsorshipDtoInputs : createSponsorship_findFirst(p, dto)
  \/ \E p \in Procs : createSponsorship_getWallet(p)
  \/ \E p \in Procs : createSponsorship_create(p)
  \/ \E p \in Procs : createSponsorship_debit(p)
  \/ \E id \in 1 .. MaxSponsorships, st \in SponsorshipStatus :
       SponsorshipUpdateStatus(id, st, RaceSponsor)

SpecSponsorRace == InitSponsorRace /\ [][NextSponsorRace]_vars

-----------------------------------------------------------------------------
(* Properties of the wallet ledger *)

RECURSIVE SumAmounts(_)
SumAmounts(txs) ==
  IF txs = <<>> THEN 0 ELSE Head(txs).amount + SumAmounts(Tail(txs))

RecordsOf(txs, w) == SelectSeq(txs, LAMBDA t : t.walletId = w)

CompletedOf(txs, w) ==
  SelectSeq(txs, LAMBDA t : t.walletId = w /\ t.status = "COMPLETED")

(* C1: for every wallet, once the createTransaction calls made on it have
   returned, its balance equals the sum of the amounts of all transaction
   records stored for it. *)
C1_BalanceIsSumOfRecords ==
  \A w \in UserIds :
    wallets[w].exists =>
      wallets[w].balance = SumAmounts(RecordsOf(transactions, w))

(* C3: a createTransaction call with a negative amount whose absolute value
   exceeds the wallet's balance fails with InsufficientBalance and leaves the
   wallets and the transaction records as they were. *)
C3_DebitBeyondBalanceFails ==
  [][ ( /\ last'.op = "createTransaction"
        /\ wallets[last'.user].exists
        /\ last'.amount < 0
        /\ -last'.amount > wallets[last'.user].balance )
      => ( /\ last'.result = "InsufficientBalance"
           /\ wallets' = wallets
           /\ transactions' = transactions ) ]_vars

(* C3 witness: a debit was refused on a wallet that holds a positive balance
   smaller than the debit. *)
C3_Witness ==
  /\ last.op = "createTransaction"
  /\ last.result = "InsufficientBalance"
  /\ wallets[last.user].exists
  /\ wallets[last.user].balance > 0
  /\ -last.amount > wallets[last.user].balance

(* C4: after every completed wallet operation each wallet's balance equals
   the sum of its COMPLETED transactions, and every change of a balance
   comes with exactly one new transaction record, of that wallet and of the
   amount of the change. *)
C4_BalanceMatchesCompleted ==
  [][ \A w \in UserIds :
        /\ wallets'[w].exists =>
             wallets'[w].balance = SumAmounts(CompletedOf(transactions', w))
        /\ wallets'[w].balance # wallets[w].balance =>
             /\ Len(transactions') = Len(transactions) + 1
             /\ transactions'[Len(transactions')].walletId = w
             /\ transactions'[Len(transactions')].amount =
                  wallets'[w].balance - wallets[w].balance ]_vars

RaceInitialBalance ==
  IF transactions # <<>> /\ transactions[1].type = "DEPOSIT"
    THEN transactions[1].amount ELSE 0

DoneWith(result) == {p \in Procs : procs[p].pc = "done" /\ procs[p].result = result}

(* C2: two debits of 60 running concurrently against a wallet with balance
   100, with no other activity: the balance is never negative, and when both
   have returned exactly one has succeeded, the other has failed with
   InsufficientBalance, and the balance is 40. *)
C2_OneOfTwoDebitsWins ==
  ( /\ RaceInitialBalance = 100
    /\ \A p \in Procs : procs[p].pc # "idle" => procs[p].dto.amount = -60 )
  => /\ wallets[RaceWallet].balance >= 0
     /\ (\A p \in Procs : procs[p].pc = "done") =>
          /\ Cardinality(DoneWith("OK")) = 1
          /\ Cardinality(DoneWith("InsufficientBalance")) = 1
          /\ wallets[RaceWallet].balance = 40

-----------------------------------------------------------------------------
(* Properties of the rental lifecycle *)

Held(r, t) == r.status \in HeldStatus /\ r.endDate >= t

(* C5: after any sequence of completed rental operations, an equipment is
   unavailable exactly when some rental of it is APPROVED, PAID or ACTIVE
   with an endDate that has not passed. *)
C5_AvailabilityMirrorsHeldRentals ==
  \A e \in EquipmentIds :
    ~equipment[e].isAvailable <=>
      \E r \in DOMAIN rentals : rentals[r].equipmentId = e /\ Held(rentals[r], now)

OthersOf(rs, id) ==
  {r \in DOMAIN rs \ {id} : rs[r].equipmentId = rs[id].equipmentId}

(* C6: when updateStatus approves a PENDING rental R of equipment E, every
   other rental of E that was PENDING becomes REJECTED and E becomes
   unavailable; when updateStatus cancels R and no other rental of E is
   APPROVED, PAID or ACTIVE, E becomes available. *)
C6_ApproveRejectsOthersCancelReleases ==
  [][ /\ ( /\ last'.op = "updateStatus"
           /\ last'.arg = "APPROVED"
           /\ last'.result = "OK"
           /\ rentals[last'.id].status = "PENDING" )
         => /\ rentals'[last'.id].status = "APPROVED"
            /\ \A r \in OthersOf(rentals, last'.id) :
                 rentals[r].status = "PENDING" => rentals'[r].status = "REJECTED"
            /\ ~equipment'[rentals[last'.id].equipmentId].isAvailable
      /\ ( /\ last'.op = "updateStatus"
           /\ last'.arg = "CANCELLED"
           /\ last'.result = "OK"
           /\ \A r \in OthersOf(rentals, last'.id) :
                rentals'[r].status \notin HeldStatus )
         => /\ rentals'[last'.id].status = "CANCELLED"
            /\ equipment'[rentals[last'.id].equipmentId].isAvailable ]_vars

(* C6 witness: a rental that was approved (approvedAt is set) has just been
   cancelled with updateStatus, another request for the same equipment was
   rejected by the approval, and the equipment is available again. *)
C6_Witness ==
  /\ last.op = "updateStatus" /\ last.arg = "CANCELLED" /\ last.result = "OK"
  /\ rentals[last.id].status = "CANCELLED"
  /\ rentals[last.id].approvedAt # Null
  /\ \E r \in OthersOf(rentals, last.id) : rentals[r].status = "REJECTED"
  /\ equipment[rentals[last.id].equipmentId].isAvailable

AllowedTransitions ==
  { <<"PENDING", "APPROVED">>, <<"APPROVED", "PAID">>, <<"APPROVED", "ACTIVE">>,
    <<"PAID", "COMPLETED">>, <<"ACTIVE", "COMPLETED">>,
    <<"PENDING", "CANCELLED">>, <<"APPROVED", "CANCELLED">>,
    <<"PENDING", "REJECTED">>, <<"APPROVED", "REJECTED">> }

(* C7: a rental's status is always one of the seven statuses, and every
   change of a status is one of PENDING to APPROVED, APPROVED to PAID or
   ACTIVE, PAID or ACTIVE to COMPLETED, PENDING or APPROVED to CANCELLED,
   PENDING or APPROVED to REJECTED. *)
C7_OnlyLifecycleTransitions ==
  [][ \A r \in DOMAIN rentals' :
        /\ rentals'[r].status \in RentalStatus
        /\ (r \in DOMAIN rentals /\ rentals'[r].status # rentals[r].status)
             => <<rentals[r].status, rentals'[r].status>> \in AllowedTransitions ]_vars

Terminal(r) ==
  r.status \in {"COMPLETED", "REJECTED"} \/ (r.status = "CANCELLED" /\ r.deleted)

(* C8: once a rental is COMPLETED, REJECTED, or CANCELLED and soft-deleted, no
   later operation changes its status. *)
C8_TerminalStatusIsFinal ==
  [][ \A r \in DOMAIN rentals :
        Terminal(rentals[r]) => rentals'[r].status = rentals[r].status ]_vars

(* updateStatus(id, status, userId) lacks the authority the claim asks for *)
Unauthorized(id, status, userId) ==
  \/ id \notin DOMAIN rentals
  \/ userId \notin {rentals[id].renterId, equipment[rentals[id].equipmentId].ownerId}
  \/ status = "APPROVED" /\ userId # equipment[rentals[id].equipmentId].ownerId

(* C9: updateStatus approves only for the equipment owner and cancels only
   for the renter or the owner; a call by anyone else fails with Forbidden
   or NotFound and changes neither a rental nor the equipment. *)
C9_OnlyOwnerApprovesOnlyPartiesCancel ==
  [][ ( /\ last'.op = "updateStatus"
        /\ Unauthorized(last'.id, last'.arg, last'.actor) )
      => ( /\ last'.result \in {"Forbidden", "NotFound"}
           /\ rentals' = rentals
           /\ equipment' = equipment ) ]_vars

(* C9 witness: the renter has tried to approve the own request and was
   refused with Forbidden. *)
C9_Witness ==
  /\ last.op = "updateStatus" /\ last.arg = "APPROVED"
  /\ last.id \in DOMAIN rentals
  /\ last.actor = rentals[last.id].renterId
  /\ rentals[last.id].status = "PENDING"
  /\ last.result = "Forbidden"

BalanceOf(ws, u) == IF ws[u].exists THEN ws[u].balance ELSE 0

(* C10: when payWithWallet succeeds for rental R, the renter's balance has
   gone down by exactly R.totalAmount, exactly one transaction was added, a
   PAYMENT of -R.totalAmount on the renter's wallet for R, and R has
   paymentStatus PAID, paymentMethod WALLET and status PAID. *)
C10_PayWithWalletDebitsOnce ==
  [][ ( last'.op = "payWithWallet" /\ last'.result = "OK" )
      => LET id == last'.id
             u == rentals[id].renterId
             paid == transactions'[Len(transactions')]
         IN /\ last'.actor = u
            /\ wallets'[u].balance = BalanceOf(wallets, u) - rentals[id].totalAmount
            /\ \A v \in UserIds \ {u} : wallets'[v] = wallets[v]
            /\ Len(transactions') = Len(transactions) + 1
            /\ SubSeq(transactions', 1, Len(transactions)) = transactions
            /\ paid.walletId = u
            /\ paid.type = "PAYMENT"
            /\ paid.amount = -rentals[id].totalAmount
            /\ paid.ref = id
            /\ rentals'[id].paymentStatus = "PAID"
            /\ rentals'[id].paymentMethod = "WALLET"
            /\ rentals'[id].status = "PAID" ]_vars

(* C10 witness: a rental requested with the RECEIPT method has just been paid
   from the wallet. *)
C10_Witness ==
  /\ last.op = "payWithWallet" /\ last.result = "OK"
  /\ rentals[last.id].paymentStatus = "PAID"
  /\ rentals[last.id].paymentMethod = "WALLET"
  /\ rentals[last.id].paymentReceiptStatus # "NONE"
  /\ \E i \in DOMAIN transactions :
       transactions[i].type = "PAYMENT" /\ transactions[i].ref = last.id

(* C11: payWithWallet on a rental whose totalAmount exceeds the payer's
   wallet balance fails and leaves the rentals, the wallet balances and the
   transaction records unchanged; when the payer is the renter of a rental
   that is not yet paid the failure is InsufficientBalance. *)
C11_PayBeyondBalanceFails ==
  [][ ( /\ last'.op = "payWithWallet"
        /\ last'.id \in DOMAIN rentals
        /\ rentals[last'.id].totalAmount > BalanceOf(wallets, last'.actor) )
      => ( /\ last'.result # "OK"
           /\ ( /\ rentals[last'.id].renterId = last'.actor
                /\ rentals[last'.id].paymentStatus # "PAID" )
              => last'.result = "InsufficientBalance"
           /\ rentals' = rentals
           /\ equipment' = equipment
           /\ transactions' = transactions
           /\ \A u \in UserIds : BalanceOf(wallets', u) = BalanceOf(wallets, u) ) ]_vars

(* C11 witness: the renter, holding less than the rental costs, was refused
   the payment of an approved rental for want of balance. *)
C11_Witness ==
  /\ last.op = "payWithWallet" /\ last.result = "InsufficientBalance"
  /\ rentals[last.id].renterId = last.actor
  /\ rentals[last.id].status = "APPROVED"
  /\ rentals[last.id].paymentStatus = "PENDING"
  /\ wallets[last.actor].exists
  /\ wallets[last.actor].balance > 0
  /\ wallets[last.actor].balance < rentals[last.id].totalAmount

(* C12: payWithWallet and processPayment on a rental whose status is PENDING,
   REJECTED, CANCELLED or COMPLETED fail, leave the rental as it is and debit
   nothing. *)
C12_PayingUnapprovedIsRejected ==
  [][ ( /\ last'.op \in {"payWithWallet", "processPayment"}
        /\ last'.id \in DOMAIN rentals
        /\ rentals[last'.id].status \in {"PENDING", "REJECTED", "CANCELLED", "COMPLETED"} )
      => ( /\ last'.result # "OK"
           /\ rentals' = rentals
           /\ transactions' = transactions
           /\ \A u \in UserIds : BalanceOf(wallets', u) = BalanceOf(wallets, u) ) ]_vars

Expired(r, t) ==
  /\ r.status = "APPROVED"
  /\ r.paymentStatus = "PENDING"
  /\ r.approvedAt # Null
  /\ t - Val(r.approvedAt) >= 24

(* C13: with the timeout of 24 hours, a run of cancelExpiredApprovedRentals in
   which no query fails sets to CANCELLED every rental that is APPROVED, with
   paymentStatus PENDING, approved at least 24 hours ago, and leaves every
   other rental unchanged. *)
C13_SweepCancelsExactlyTheExpired ==
  [][ ( /\ last'.op = "cancelExpiredApprovedRentals"
        /\ \A id \in last'.selected : last'.faults[id] = "none" )
      => \A r \in DOMAIN rentals :
           IF Expired(rentals[r], now)
             THEN rentals'[r] = [rentals[r] EXCEPT !.status = "CANCELLED"]
             ELSE rentals'[r] = rentals[r] ]_vars

(* C13 witness: a run at hour 24 has cancelled a rental approved 24 hours
   before and has left alone an unpaid rental approved 23 hours before. *)
C13_Witness ==
  /\ last.op = "cancelExpiredApprovedRentals"
  /\ now = 24
  /\ \E a, b \in DOMAIN rentals :
       /\ rentals[a].status = "CANCELLED" /\ rentals[a].approvedAt = Some(0)
       /\ a \in last.returned
       /\ rentals[b].status = "APPROVED" /\ rentals[b].approvedAt = Some(1)
       /\ rentals[b].paymentStatus = "PENDING"

(* C15: in a run of cancelExpiredApprovedRentals, every expired rental whose
   turn meets no failure is cancelled and returned even when the turn of
   another rental fails, and a rental whose turn fails is not returned. *)
C15_FailureDoesNotStopSweep ==
  [][ last'.op = "cancelExpiredApprovedRentals"
      => \A id \in last'.selected :
           /\ last'.faults[id] = "none"
                => rentals'[id].status = "CANCELLED" /\ id \in last'.returned
           /\ last'.faults[id] \in {"update", "findFirst"}
                => id \notin last'.returned ]_vars

(* C15 witness: the turn of the first expired rental failed at its update, the
   second expired rental was cancelled and returned. *)
C15_Witness ==
  /\ last.op = "cancelExpiredApprovedRentals"
  /\ last.selected = {1, 2}
  /\ last.faults[1] = "update"
  /\ last.faults[2] = "none"
  /\ last.returned = {2}
  /\ rentals[1].status = "APPROVED"
  /\ rentals[2].status = "CANCELLED"

(* C14: when a rental the sweep has selected is paid or cancelled by a user
   before the sweep's update of it, the update does not overwrite the rental:
   no rental is left with paymentStatus PAID and status CANCELLED by the
   sweep, and a rental a user has cancelled is not cancelled again. *)
C14_SweepDoesNotOverwrite ==
  [][ ( /\ last'.op = "sweep.update"
        /\ ~( /\ rentals[last'.id].status = "APPROVED"
              /\ rentals[last'.id].paymentStatus = "PENDING" ) )
      => /\ rentals' = rentals
         /\ procs'["p1"].pc = "loop"
         /\ last'.id \notin procs'["p1"].todo ]_vars

(* C16: under every interleaving of updateStatus(R, APPROVED) and create for
   the same equipment E, once both have returned with success no rental of E
   other than R is PENDING while E is unavailable. *)
C16_ApprovalAtomicWithCreation ==
  ( /\ procs["p1"].pc = "done" /\ procs["p1"].result = "OK"
    /\ procs["p2"].pc = "done" /\ procs["p2"].result = "OK" )
  => \A r \in OthersOf(rentals, procs["p1"].id) :
       ~( /\ rentals[r].status = "PENDING"
          /\ ~equipment[rentals[r].equipmentId].isAvailable )

-----------------------------------------------------------------------------
(* Properties of the sponsorships *)

ActiveNow(sponsorId) ==
  {i \in DOMAIN sponsorships :
     /\ sponsorships[i].sponsorId = sponsorId
     /\ sponsorships[i].status = "ACTIVE"
     /\ sponsorships[i].startDate <= now
     /\ now <= sponsorships[i].endDate}

(* C17: createSponsorship by a sponsor who has a sponsorship with status
   ACTIVE and startDate <= now <= endDate fails, whatever the target user or
   the equipment, and creates no sponsorship and no wallet transaction. *)
C17_SecondSponsorshipFails ==
  [][ ( last'.op = "createSponsorship" /\ ActiveNow(last'.actor) # {} )
      => ( /\ last'.result # "OK"
           /\ sponsorships' = sponsorships
           /\ transactions' = transactions
           /\ wallets' = wallets ) ]_vars

(* C17 witness: a sponsor with an active sponsorship and the balance for a
   second one asked for a sponsorship of the equipment they own, and was
   refused. *)
C17_Witness ==
  /\ last.op = "createSponsorship" /\ last.result = "BadRequest"
  /\ last.dto.equipmentId = "e1" /\ last.actor = "u1"
  /\ last.dto.amount > 0 /\ last.dto.duration > 0
  /\ ActiveNow(last.actor) # {}
  /\ wallets[last.actor].balance >= last.dto.amount

(* C18: in every reachable state, under concurrent createSponsorship calls of
   one sponsor and after updateStatus calls on sponsorships, each sponsor has
   at most one sponsorship that is ACTIVE with a window containing now. *)
C18_OneActiveSponsorshipPerSponsor ==
  \A u \in UserIds : Cardinality(ActiveNow(u)) <= 1

(* C19: a successful createSponsorship with amount a and duration d creates
   exactly one sponsorship, ACTIVE, with startDate = now and endDate = now + d
   days, and debits the sponsor's wallet by exactly a through one
   PROMOTION_FEE transaction; a call with amount <= 0 or duration <= 0 fails
   and creates nothing. *)
C19_CreateSponsorshipDebitsOnce ==
  [][ last'.op = "createSponsorship"
      => LET u == last'.actor
             dto == last'.dto
             n == Len(sponsorships)
             fee == transactions'[Len(transactions')]
         IN /\ last'.result = "OK" =>
                 /\ Len(sponsorships') = n + 1
                 /\ SubSeq(sponsorships', 1, n) = sponsorships
                 /\ sponsorships'[n + 1].sponsorId = u
                 /\ sponsorships'[n + 1].status = "ACTIVE"
                 /\ sponsorships'[n + 1].startDate = now
                 /\ sponsorships'[n + 1].endDate = now + 24 * dto.duration
                 /\ sponsorships'[n + 1].amount = dto.amount
                 /\ sponsorships'[n + 1].duration = dto.duration
                 /\ wallets'[u].balance = BalanceOf(wallets, u) - dto.amount
                 /\ \A v \in UserIds \ {u} : wallets'[v] = wallets[v]
                 /\ Len(transactions') = Len(transactions) + 1
                 /\ SubSeq(transactions', 1, Len(transactions)) = transactions
                 /\ fee.walletId = u
                 /\ fee.type = "PROMOTION_FEE"
                 /\ fee.amount = -dto.amount
            /\ (dto.amount <= 0 \/ dto.duration <= 0) =>
                 /\ last'.result # "OK"
                 /\ sponsorships' = sponsorships
                 /\ transactions' = transactions
                 /\ wallets' = wallets ]_vars

(* C19 witness: a general sponsorship of two days has just been created and
   paid. *)
C19_Witness ==
  /\ last.op = "createSponsorship" /\ last.result = "OK"
  /\ last.dto.duration = 2
  /\ sponsorships[last.id].status = "ACTIVE"
  /\ sponsorships[last.id].endDate = now + 48
  /\ \E i \in DOMAIN transactions :
       transactions[i].type = "PROMOTION_FEE" /\ transactions[i].ref = last.id

(* C20: extendSponsorship succeeds only for a sponsorship that is ACTIVE and
   belongs to the caller; on success the wallet is debited by exactly
   additionalAmount and endDate, duration and amount grow by additionalDays
   (in days), additionalDays and additionalAmount; on a failure the
   sponsorships, the balances and the transactions are unchanged. *)
C20_ExtendGrowsTogether ==
  [][ last'.op = "extendSponsorship"
      => LET u == last'.actor
             id == last'.id
         IN IF last'.result = "OK"
              THEN /\ id \in DOMAIN sponsorships
                   /\ sponsorships[id].status = "ACTIVE"
                   /\ sponsorships[id].sponsorId = u
                   /\ sponsorships' =
                        [sponsorships EXCEPT
                           ![id].endDate = @ + 24 * last'.days,
                           ![id].duration = @ + last'.days,
                           ![id].amount = @ + last'.amount]
                   /\ wallets'[u].balance = BalanceOf(wallets, u) - last'.amount
                   /\ \A v \in UserIds \ {u} : wallets'[v] = wallets[v]
                   /\ Len(transactions') = Len(transactions) + 1
                   /\ transactions'[Len(transactions')].amount = -last'.amount
                   /\ transactions'[Len(transactions')].type = "PROMOTION_FEE"
                   /\ transactions'[Len(transactions')].walletId = u
              ELSE /\ sponsorships' = sponsorships
                   /\ transactions' = transactions
                   /\ \A v \in UserIds : BalanceOf(wallets', v) = BalanceOf(wallets, v) ]_vars

(* C20 witness: a sponsorship of 40 for one day has just been extended by one
   day for 40 more. *)
C20_Witness ==
  /\ last.op = "extendSponsorship" /\ last.result = "OK"
  /\ last.days = 1 /\ last.amount = 40
  /\ sponsorships[last.id].duration = 2
  /\ sponsorships[last.id].amount = 80
  /\ sponsorships[last.id].endDate = sponsorships[last.id].startDate + 48

(* C21: after expireOldSponsorships every sponsorship that was ACTIVE with
   endDate before now is EXPIRED and every other sponsorship is unchanged, as
   are the wallets and the transactions; a second run at the same instant
   changes nothing. *)
C21_ExpireOnlyActivePastEnd ==
  [][ last'.op = "expireOldSponsorships"
      => /\ DOMAIN sponsorships' = DOMAIN sponsorships
         /\ \A i \in DOMAIN sponsorships :
              IF sponsorships[i].status = "ACTIVE" /\ sponsorships[i].endDate < now
                THEN sponsorships'[i] = [sponsorships[i] EXCEPT !.status = "EXPIRED"]
                ELSE sponsorships'[i] = sponsorships[i]
         /\ wallets' = wallets
         /\ transactions' = transactions
         /\ expireOldSponsorships(Sp(wallets', transactions', sponsorships'), now')
              = Sp(wallets', transactions', sponsorships') ]_vars

(* C21 witness: the sweep has expired a sponsorship whose window is over, next
   to a sponsorship it left alone: an ACTIVE one whose window is open, or a
   PAUSED one. *)
C21_Witness ==
  /\ last.op = "expireOldSponsorships"
  /\ \E i, j \in DOMAIN sponsorships :
       /\ sponsorships[i].status = "EXPIRED" /\ sponsorships[i].endDate < now
       /\ sponsorships[j].status \in {"ACTIVE", "PAUSED"}
       /\ sponsorships[j].status = "ACTIVE" => sponsorships[j].endDate >= now

-----------------------------------------------------------------------------
(* Properties of the reminders, of creation and of the receipts *)

(* C22: across the runs of sendReturnReminders a rental is returned at most
   once: a run returns a rental only if its returnReminderDate <= today, its
   returnNotificationSent was false and its status was ACTIVE or PAID, it
   leaves the rental marked as sent, also when the emails fail afterwards, and
   no step clears the mark. *)
C22_RemindedAtMostOnce ==
  [][ /\ \A r \in DOMAIN rentals :
           rentals[r].returnNotificationSent => rentals'[r].returnNotificationSent
      /\ last'.op = "sendReturnReminders"
           => \A r \in last'.returned :
                /\ rentals[r].returnReminderDate <= now - (now % 24)
                /\ ~rentals[r].returnNotificationSent
                /\ rentals[r].status \in {"ACTIVE", "PAID"}
                /\ rentals'[r].returnNotificationSent ]_vars

(* C22 witness: a run returns nothing while a rental that is due, and ACTIVE
   or PAID, carries the mark of an earlier run. *)
C22_Witness ==
  /\ last.op = "sendReturnReminders"
  /\ last.returned = {}
  /\ \E r \in DOMAIN rentals :
       /\ rentals[r].returnNotificationSent
       /\ rentals[r].status \in {"ACTIVE", "PAID"}
       /\ ~rentals[r].deleted
       /\ rentals[r].returnReminderDate <= now - (now % 24)

(* The request asks for priority: the if before the try block *)
AsksPriority(dto) == dto.hasPriority /\ Truthy(dto.priorityAmount)

(* C23: when create is called by a tenant with hasPriority and priorityAmount
   set, and the renter's balance is below priorityAmount or a query of the
   debit throws, the call succeeds, the rental is stored with hasPriority
   false and priorityAmount and priorityPaidAt null, and the renter's balance
   is what it was. *)
C23_PriorityRolledBack ==
  [][ ( /\ last'.op = "create"
        /\ last'.actor = "u2"
        /\ AsksPriority(last'.dto)
        /\ \/ BalanceOf(wallets, "u2") < Val(last'.dto.priorityAmount)
           \/ last'.fault # "none" )
      => /\ last'.result = "OK"
         /\ Len(rentals') = Len(rentals) + 1
         /\ ~rentals'[last'.id].hasPriority
         /\ rentals'[last'.id].priorityAmount = Null
         /\ rentals'[last'.id].priorityPaidAt = Null
         /\ rentals'[last'.id].status = "PENDING"
         /\ BalanceOf(wallets', "u2") = BalanceOf(wallets, "u2")
    ]_vars

(* C23 witness: a request with a fee of 30 by a renter who holds 40 was stored
   without priority because wallet.update threw, next to the fee's record. *)
C23_Witness ==
  /\ last.op = "create"
  /\ last.result = "OK"
  /\ last.fault = "update"
  /\ last.dto.priorityAmount = Some(30)
  /\ last.dto.hasPriority
  /\ wallets["u2"].exists /\ wallets["u2"].balance = 40
  /\ ~rentals[last.id].hasPriority
  /\ transactions[Len(transactions)].type = "PRIORITY_FEE"

(* The checks create makes before it reads the dates all pass *)
ReachesDates(dto) ==
  /\ dto.equipmentId \in EquipmentIds
  /\ equipment[dto.equipmentId].isAvailable
  /\ dto.renterId \in Users
  /\ UserType[dto.renterId] = "TENANT"
  /\ EquipmentOwner[dto.equipmentId] # dto.renterId

(* C24: a creation with endDate <= startDate fails, and so does a creation
   whose startDate is before the start of today; the failure is a validation
   error whenever the request gets as far as the dates, and in both cases the
   rentals are what they were. *)
C24_BadDatesRejected ==
  [][ ( /\ last'.op = "create"
        /\ \/ last'.dto.endDate <= last'.dto.startDate
           \/ last'.dto.startDate < now - (now % HoursPerDay) )
      => /\ last'.result # "OK"
         /\ rentals' = rentals
         /\ UNCHANGED <<wallets, transactions, equipment>>
         /\ ReachesDates(last'.dto) => last'.result = "ValidationError"
    ]_vars

(* C24 witness: on the second day, after one rental was stored, a request by
   tenant u2 that starts today and ends today was refused. *)
C24_Witness ==
  /\ last.op = "create"
  /\ last.result = "ValidationError"
  /\ last.actor = "u2"
  /\ now >= HoursPerDay
  /\ last.dto.startDate = now - (now % HoursPerDay)
  /\ last.dto.endDate = last.dto.startDate
  /\ Len(rentals) = 1

(* The number of periods the claim names, for a rental of `days` days *)
PeriodCount(period, days) ==
  CASE period = "HOURLY" -> days * 8
    [] period = "WEEKLY" -> (days + 6) \div 7
    [] period = "MONTHLY" -> (days + 29) \div 30
    [] OTHER -> days

(* C25: a stored rental has the totalAmount of the request when the request
   carries one, and otherwise dailyRate x periodCount over the days from
   startDate to endDate, the rate and the period being those of the request
   or else of the equipment. *)
C25_TotalAmountStored ==
  [][ ( last'.op = "create" /\ last'.result = "OK" )
      => LET dto == last'.dto
             eq == equipment[dto.equipmentId]
             days == (dto.endDate - dto.startDate + HoursPerDay - 1) \div HoursPerDay
             rate == IF dto.dailyRate # Null THEN Val(dto.dailyRate) ELSE eq.price
             period == IF dto.pricePeriod # "" THEN dto.pricePeriod ELSE eq.pricePeriod
         IN rentals'[last'.id].totalAmount =
              IF dto.totalAmount # Null THEN Val(dto.totalAmount)
              ELSE rate * PeriodCount(period, days)
    ]_vars

(* The part of C25 about requests without a totalAmount *)
C25_ComputedWhenAbsent ==
  [][ ( last'.op = "create" /\ last'.result = "OK" /\ last'.dto.totalAmount = Null )
      => LET dto == last'.dto
             eq == equipment[dto.equipmentId]
             days == (dto.endDate - dto.startDate + HoursPerDay - 1) \div HoursPerDay
             rate == IF dto.dailyRate # Null THEN Val(dto.dailyRate) ELSE eq.price
             period == IF dto.pricePeriod # "" THEN dto.pricePeriod ELSE eq.pricePeriod
         IN /\ rentals'[last'.id].totalAmount = rate * PeriodCount(period, days)
            /\ (rate = 50 /\ days = 4)
                 => rentals'[last'.id].totalAmount =
                      CASE period = "HOURLY" -> 1600
                        [] period = "DAILY" -> 200
                        [] OTHER -> 50
    ]_vars

(* C26: create leaves every equipment as it was and every rental it found as
   it was; the rental it stores is PENDING with paymentStatus PENDING, and an
   equipment stops being available only in an approval. *)
C26_CreateReservesNothing ==
  [][ /\ last'.op = "create"
        => /\ equipment' = equipment
           /\ \A r \in DOMAIN rentals : rentals'[r] = rentals[r]
           /\ last'.result = "OK"
                => /\ Len(rentals') = Len(rentals) + 1
                   /\ rentals'[last'.id].status = "PENDING"
                   /\ rentals'[last'.id].paymentStatus = "PENDING"
                   /\ equipment'[rentals'[last'.id].equipmentId].isAvailable
           /\ last'.result # "OK" => rentals' = rentals
      /\ \A e \in EquipmentIds :
           ( equipment[e].isAvailable /\ ~equipment'[e].isAvailable )
             => ( last'.op = "updateStatus" /\ last'.arg = "APPROVED"
                  /\ last'.result = "OK" )
    ]_vars

(* C26 witness: a second request was stored as PENDING next to a rental that
   was rejected or cancelled before, the equipment being available. *)
C26_Witness ==
  /\ last.op = "create"
  /\ last.result = "OK"
  /\ Len(rentals) = 2
  /\ rentals[1].status \in {"REJECTED", "CANCELLED"}
  /\ rentals[2].status = "PENDING"
  /\ equipment["e1"].isAvailable

(* C27: validatePaymentReceipt changes a rental only when its
   paymentReceiptStatus is PENDING: approval sets paymentReceiptStatus
   APPROVED, paymentStatus PAID and status PAID; rejection sets
   paymentReceiptStatus REJECTED and leaves paymentStatus and status alone;
   otherwise the call fails and the rental is as it was.  Nothing else is
   written. *)
C27_ReceiptValidatedWhenPending ==
  [][ last'.op = "validatePaymentReceipt"
      => /\ UNCHANGED <<wallets, transactions, equipment>>
         /\ IF last'.id \in DOMAIN rentals
                /\ rentals[last'.id].paymentReceiptStatus = "PENDING"
              THEN /\ last'.result = "OK"
                   /\ rentals' =
                        IF last'.arg = "approve"
                          THEN [rentals EXCEPT
                                  ![last'.id].paymentReceiptStatus = "APPROVED",
                                  ![last'.id].paymentStatus = "PAID",
                                  ![last'.id].status = "PAID"]
                          ELSE [rentals EXCEPT
                                  ![last'.id].paymentReceiptStatus = "REJECTED"]
              ELSE /\ last'.result # "OK"
                   /\ rentals' = rentals
    ]_vars

(* C27 witness: the receipt of an approved rental was rejected and the rental
   is still APPROVED and unpaid. *)
C27_Witness ==
  /\ last.op = "validatePaymentReceipt"
  /\ last.arg = "reject"
  /\ last.result = "OK"
  /\ rentals[last.id].paymentReceiptStatus = "REJECTED"
  /\ rentals[last.id].status = "APPROVED"
  /\ rentals[last.id].paymentStatus = "PENDING"

-----------------------------------------------------------------------------
(* Properties of the wallet's reads *)

(* The calls that ended with a row of Wallet inserted for owner u; no code
   deletes a wallet, so these are the wallets of u *)
InsertedFor(ps, u) ==
  {p \in Procs : ps[p].pc = "done" /\ ps[p].inserted /\ ps[p].user = u}

(* C28: getWalletByUserId returns the owner's wallet and writes nothing when
   it finds one; its wallet.create, when the owner has no wallet, stores a
   wallet with balance 0 and no transaction; a call for an unknown owner ends
   in NotFound; a call that fails writes nothing; and whatever the
   interleaving of two calls, no owner has two wallets and an unknown owner
   has none. *)
C28_GetOrCreateOneWallet ==
  [][ /\ \A p \in Procs :
           /\ ( procs[p].pc = "idle" /\ procs'[p].pc # "idle"
                /\ wallets[procs'[p].user].exists )
                => /\ procs'[p].pc = "done"
                   /\ procs'[p].result = "OK"
                   /\ UNCHANGED <<wallets, transactions>>
           /\ ( procs[p].pc = "create" /\ procs'[p].pc = "done"
                /\ ~wallets[procs'[p].user].exists )
                => /\ procs'[p].result = "OK"
                   /\ wallets' = [wallets EXCEPT ![procs'[p].user] =
                                    [exists |-> TRUE, balance |-> 0]]
                   /\ transactions' = transactions
           /\ ( procs[p].pc # "done" /\ procs'[p].pc = "done" )
                => /\ procs'[p].user \notin Users => procs'[p].result = "NotFound"
                   /\ procs'[p].result # "OK" => UNCHANGED <<wallets, transactions>>
      /\ \A u \in WalletOwners : Cardinality(InsertedFor(procs', u)) <= 1
      /\ \A u \in UserIds \ Users : ~wallets'[u].exists
    ]_vars

(* C28 witness: two first accesses of u2 ran together; one stored the wallet,
   the other was stopped by the unique index. *)
C28_Witness ==
  /\ procs["p1"].pc = "done" /\ procs["p2"].pc = "done"
  /\ procs["p1"].user = "u2" /\ procs["p2"].user = "u2"
  /\ procs["p1"].inserted
  /\ procs["p2"].result = "UniqueConstraint"
  /\ wallets["u2"].exists

(* C29: a call of getWalletTransactions leaves every wallet and every
   transaction as it was, also when the user has no wallet yet. *)
C29_ListingWritesNothing ==
  [][ last'.op = "getWalletTransactions"
      => UNCHANGED <<wallets, transactions>> ]_vars

(* The part of C29 about users who have a wallet *)
C29_ListingOfWalletWritesNothing ==
  [][ ( last'.op = "getWalletTransactions" /\ last'.user \in UserIds
        /\ wallets[last'.user].exists )
      => UNCHANGED <<wallets, transactions>> ]_vars

(* C30: a deposit the gateway accepted adds exactly one transaction, a
   DEPOSIT of the amount on the user's wallet, and its status is PENDING, the
   status depositViaProxyPay passed to createTransaction. *)
C30_GatewayDepositIsPending ==
  [][ ( last'.op = "depositViaProxyPay" /\ last'.result = "OK" )
      => /\ Len(transactions') = Len(transactions) + 1
         /\ SubSeq(transactions', 1, Len(transactions)) = transactions
         /\ LET tx == transactions'[Len(transactions')]
            IN /\ tx.type = "DEPOSIT"
               /\ tx.walletId = last'.user
               /\ tx.amount = last'.amount
               /\ tx.status = "PENDING"
    ]_vars

(* The part of C30 about the number and the type of the records *)
C30_GatewayDepositRecordsOne ==
  [][ ( last'.op = "depositViaProxyPay" /\ last'.result = "OK" )
      => /\ Len(transactions') = Len(transactions) + 1
         /\ SubSeq(transactions', 1, Len(transactions)) = transactions
         /\ transactions'[Len(transactions')].type = "DEPOSIT"
         /\ transactions'[Len(transactions')].amount = last'.amount
    ]_vars

-----------------------------------------------------------------------------
(* Properties across the services *)

(* C31: a call that returns an error leaves the wallets, the transactions,
   the rentals, the sponsorships and the equipment as they were; create (for
   its priority fee) and the expiry sweep (for its per-item failures) are
   excepted. *)
C31_ErrorWritesNothing ==
  [][ ( /\ last'.result # "OK"
        /\ last'.op \notin {"create", "cancelExpiredApprovedRentals"} )
      => UNCHANGED <<wallets, transactions, rentals, sponsorships, equipment>>
    ]_vars

(* The rentals of equipment e that hold it at hour t *)
HoldersOf(e, t) ==
  {r \in DOMAIN rentals : rentals[r].equipmentId = e /\ Held(rentals[r], t)}

(* C32: in every reachable state, each equipment has at most one rental that
   is APPROVED, PAID or ACTIVE with an endDate that has not passed. *)
C32_OneHolderPerEquipment ==
  \A e \in EquipmentIds : Cardinality(HoldersOf(e, now)) <= 1

(* The PAYMENT records of rental id *)
PaymentsOf(txs, id) ==
  SelectSeq(txs, LAMBDA tx : tx.type = "PAYMENT" /\ tx.ref = id)

(* C33: whatever the interleaving of the payWithWallet calls for a rental, at
   most one PAYMENT is recorded for it, and the renter's balance goes down by
   its totalAmount at most once. *)
C33_PaidAtMostOnce ==
  \A id \in DOMAIN rentals :
    /\ Len(PaymentsOf(transactions, id)) <= 1
    /\ wallets[rentals[id].renterId].balance
         >= RaceInitialBalance - rentals[id].totalAmount

(* C34: no call of create and no call of payWithWallet leaves a wallet with
   a balance above the one it had, whatever the sign of priorityAmount and of
   the stored totalAmount. *)
C34_RentalCallsNeverCredit ==
  [][ last'.op \in {"create", "payWithWallet"}
      => \A u \in UserIds : BalanceOf(wallets', u) <= BalanceOf(wallets, u)
    ]_vars

(* The PROMOTION_FEE records of sponsorship id *)
FeesOf(txs, id) ==
  SelectSeq(txs, LAMBDA tx : tx.type = "PROMOTION_FEE" /\ tx.ref = id)

(* C35: once the calls that were creating a sponsorship have returned, the
   PROMOTION_FEE debits of every ACTIVE sponsorship sum to its amount; a
   sponsorship whose debit failed does not exist. *)
C35_ActiveSponsorshipIsPaid ==
  ( \A p \in Procs : procs[p].pc \in {"idle", "done"} )
  => \A i \in DOMAIN sponsorships :
       sponsorships[i].status = "ACTIVE"
         => SumAmounts(FeesOf(transactions, i)) = - sponsorships[i].amount

(* C36: a rental that create has stored with hasPriority true has a
   priorityAmount, and a PRIORITY_FEE debit of that amount is recorded for it
   on the renter's wallet. *)
C36_PriorityMeansFeePaid ==
  [][ ( last'.op = "create" /\ last'.result = "OK"
        /\ rentals'[last'.id].hasPriority )
      => LET r == rentals'[last'.id]
         IN /\ r.priorityAmount # Null
            /\ \E i \in DOMAIN transactions' :
                 /\ transactions'[i].type = "PRIORITY_FEE"
                 /\ transactions'[i].ref = last'.id
                 /\ transactions'[i].walletId = r.renterId
                 /\ transactions'[i].amount = - Val(r.priorityAmount)
    ]_vars

(* The part of C36 about requests with a priorityAmount other than zero *)
C36_FeePaidWhenAmountGiven ==
  [][ ( last'.op = "create" /\ last'.result = "OK"
        /\ Truthy(last'.dto.priorityAmount)
        /\ rentals'[last'.id].hasPriority )
      => \E i \in DOMAIN transactions' :
           /\ transactions'[i].type = "PRIORITY_FEE"
           /\ transactions'[i].ref = last'.id
           /\ transactions'[i].amount = - Val(last'.dto.priorityAmount)
    ]_vars

(* C37: validatePaymentReceipt marks a rental PAID only when a receipt was
   uploaded for it; uploadPaymentReceipt succeeds only for the renter of a
   rental with paymentMethod RECEIPT, and it leaves the receipt status of a
   rental that is PAID as it was. *)
C37_PaidByReceiptNeedsUpload ==
  [][ /\ ( last'.op = "validatePaymentReceipt" /\ last'.result = "OK"
           /\ rentals'[last'.id].paymentStatus = "PAID"
           /\ rentals[last'.id].paymentStatus # "PAID" )
         => rentals[last'.id].paymentReceipt # ""
      /\ ( last'.op = "uploadPaymentReceipt" /\ last'.result = "OK" )
         => /\ rentals[last'.id].renterId = last'.actor
            /\ rentals[last'.id].paymentMethod = "RECEIPT"
            /\ rentals[last'.id].paymentStatus = "PAID"
                 => rentals'[last'.id].paymentReceiptStatus
                      = rentals[last'.id].paymentReceiptStatus
    ]_vars

(* C38: with the sweep running every hour and the clock advancing, a rental
   that is APPROVED with paymentStatus PENDING does not stay so for ever: it
   is cancelled (or leaves APPROVED otherwise, or is paid), also when its
   approval ended between the write of the status and the write of
   approvedAt. *)
C38_UnpaidApprovalExpires ==
  \A id \in 1 .. MaxRequests :
    ( id \in DOMAIN rentals /\ rentals[id].status = "APPROVED"
      /\ rentals[id].paymentStatus = "PENDING" )
    ~> ( id \in DOMAIN rentals
         /\ ( rentals[id].status # "APPROVED" \/ rentals[id].paymentStatus = "PAID" ) )

(* C39: when the calls on a wallet run one at a time, no wallet has a
   negative balance in any reachable state. *)
C39_BalanceNeverNegative ==
  \A u \in UserIds : wallets[u].balance >= 0

(* C39 witness: a debit larger than the balance that is left was refused
   after an earlier debit had gone through. *)
C39_Witness ==
  /\ last.op \in {"createTransaction", "withdrawViaProxyPay", "payWithWallet",
                   "createSponsorship", "extendSponsorship"}
  /\ last.result = "InsufficientBalance"
  /\ wallets[BalanceOwner].exists
  /\ wallets[BalanceOwner].balance > 0
  /\ \E i \in DOMAIN transactions : transactions[i].amount < 0

=============================================================================
